---------------------------- MODULE Spec2Model ----------------------------
(***************************************************************************)
(* Certificate intelligence of the training portal: the server's text      *)
(* acquisition and field extractor (routes for /training, certificate      *)
(* part) and the browser's name matcher, presearch flow and auto-fill      *)
(* reconciliation (certificate manager page script).                       *)
(*                                                                         *)
(* JavaScript strings are TLA+ strings; the character at 1-based position  *)
(* i of s is SubSeq(s, i, i).  A JavaScript null/undefined string is the   *)
(* value Null; a nullable number is <<>> (null) or <<n>> with n counted    *)
(* in thousandths.                                                         *)
(***************************************************************************)
EXTENDS Integers, Sequences, FiniteSets, TLC

(***************************************************************************)
(* Characters.                                                             *)
(***************************************************************************)
UpperAZ == "ABCDEFGHIJKLMNOPQRSTUVWXYZ"

LowerAZ == "abcdefghijklmnopqrstuvwxyz"

Digits09 == "0123456789"

CharAt(s, i) == SubSeq(s, i, i)

Chars(s) == {CharAt(s, i) : i \in 1..Len(s)}

UpperSet == Chars(UpperAZ)

LowerSet == Chars(LowerAZ)

DigitSet == Chars(Digits09)

\* \s of a JavaScript regular expression, restricted to the characters the
\* modelled texts use
SpaceSet == {" ", "\t", "\n", "\r"}

\* \w
WordSet == UpperSet \cup LowerSet \cup DigitSet \cup {"_"}

LowerOf == [c \in UpperSet |-> CharAt(LowerAZ, CHOOSE i \in 1..26 : CharAt(UpperAZ, i) = c)]

ToLowerChar(c) == IF c \in UpperSet THEN LowerOf[c] ELSE c

\* The per-character operators below split their range in halves, so that the
\* depth of the evaluation grows with the logarithm of the length.
RECURSIVE LowerRange(_, _, _)
LowerRange(s, lo, hi) ==
  IF lo > hi THEN ""
  ELSE IF lo = hi THEN ToLowerChar(CharAt(s, lo))
  ELSE LowerRange(s, lo, (lo + hi) \div 2) \o LowerRange(s, (lo + hi) \div 2 + 1, hi)

\* String.prototype.toLowerCase
ToLowerCase(s) == LowerRange(s, 1, Len(s))

UpperOf == [c \in LowerSet |-> CharAt(UpperAZ, CHOOSE i \in 1..26 : CharAt(LowerAZ, i) = c)]

ToUpperChar(c) == IF c \in LowerSet THEN UpperOf[c] ELSE c

RECURSIVE UpperRange(_, _, _)
UpperRange(s, lo, hi) ==
  IF lo > hi THEN ""
  ELSE IF lo = hi THEN ToUpperChar(CharAt(s, lo))
  ELSE UpperRange(s, lo, (lo + hi) \div 2) \o UpperRange(s, (lo + hi) \div 2 + 1, hi)

\* String.prototype.toUpperCase
ToUpperCase(s) == UpperRange(s, 1, Len(s))

DigitVal(c) == CHOOSE d \in 0..9 : CharAt(Digits09, d + 1) = c

\* the value of a string of decimal digits ("" is 0)
RECURSIVE DigitsValue(_)
DigitsValue(s) ==
  IF s = "" THEN 0 ELSE 10 * DigitsValue(SubSeq(s, 1, Len(s) - 1)) + DigitVal(CharAt(s, Len(s)))

\* null / undefined where a string is expected
Null == "<null>"

\* !value for a string-or-null value
Falsy(v) == v = Null \/ v = ""

\* (value || '')
OrEmpty(v) == IF Falsy(v) THEN "" ELSE v

(***************************************************************************)
(* Regular expressions.  A pattern is a tree of the nodes below; RxM gives *)
(* the ways the pattern matches s from offset i (i characters consumed),   *)
(* in the order a backtracking matcher tries them, so the first is the     *)
(* match JavaScript reports.  A result is [e |-> end offset, c |-> the     *)
(* offsets <<from, to>> of capture group 1, or <<>>].  A pattern with the  *)
(* i flag is written in lower case and matched against ToLowerCase(s); the *)
(* captured text is then cut from s itself.  Groups whose captured text    *)
(* the code never reads are written as plain sub-patterns.                 *)
(***************************************************************************)
Lit(str) == [t |-> "lit", s |-> str]

Cls(set) == [t |-> "cls", s |-> set]

NotCls(set) == [t |-> "ncls", s |-> set]

Cat(rs) == [t |-> "cat", rs |-> rs]

Alt(rs) == [t |-> "alt", rs |-> rs]

\* r{lo,hi}, greedy; hi = -1 is no upper limit
Rep(r, lo, hi) == [t |-> "rep", r |-> r, lo |-> lo, hi |-> hi, lazy |-> FALSE, n |-> 0]

\* r{lo,hi}?, lazy
RepLazy(r, lo, hi) == [t |-> "rep", r |-> r, lo |-> lo, hi |-> hi, lazy |-> TRUE, n |-> 0]

Star(r) == Rep(r, 0, -1)

Plus(r) == Rep(r, 1, -1)

Opt(r) == Rep(r, 0, 1)

\* capture group 1
Grp(r) == [t |-> "grp", r |-> r]

\* \b
WordB == [t |-> "wb"]

\* ^ and $ (no m flag)
Bol == [t |-> "bol"]

Eol == [t |-> "eol"]

\* \s, \d, . and [\s\S]
RxSpace == Cls(SpaceSet)

RxDigit == Cls(DigitSet)

RxDot == NotCls({"\n", "\r"})

RxAny == NotCls({})

At(e) == [e |-> e, c |-> <<>>]

IsWordAt(s, i) == i >= 1 /\ i <= Len(s) /\ CharAt(s, i) \in WordSet

InCls(re, ch) == IF re.t = "cls" THEN ch \in re.s ELSE ch \notin re.s

\* the first position in lo..hi whose character is not of class re; hi + 1
\* when there is none
RECURSIVE FirstOutside(_, _, _, _)
FirstOutside(re, s, lo, hi) ==
  IF lo > hi THEN hi + 1
  ELSE IF lo = hi THEN (IF InCls(re, CharAt(s, lo)) THEN hi + 1 ELSE lo)
  ELSE LET mid  == (lo + hi) \div 2
           left == FirstOutside(re, s, lo, mid)
       IN  IF left <= mid THEN left ELSE FirstOutside(re, s, mid + 1, hi)

\* the length of the longest run of characters of class re from offset i, at
\* most hi long (hi = -1: no limit)
RunLen(re, s, i, hi) ==
  LET last == IF hi >= 0 /\ i + hi < Len(s) THEN i + hi ELSE Len(s)
  IN  FirstOutside(re, s, i + 1, last) - 1 - i

\* xs followed by the results of ys that xs does not hold yet
AppendNew(xs, ys) == xs \o SelectSeq(ys, LAMBDA y : \A j \in 1..Len(xs) : xs[j] # y)

\* the results rs of a group entered at offset i: the capture is i..e
Captured(rs, i) == [k \in 1..Len(rs) |-> [e |-> rs[k].e, c |-> <<i, rs[k].e>>]]

\* a repeated character class re.r from offset i: every admissible length,
\* the longest first when greedy, the shortest first when lazy
ClassRuns(re, s, i, c) ==
  IF RunLen(re.r, s, i, re.hi) < re.lo THEN <<>>
  ELSE [k \in 1..(RunLen(re.r, s, i, re.hi) - re.lo + 1) |->
          [e |-> IF re.lazy THEN i + re.lo + k - 1 ELSE i + RunLen(re.r, s, i, re.hi) - k + 1,
           c |-> c]]

\* the ordered results of matching pattern re from each of the partial
\* matches starts, a result reached twice kept at its first place; the n of
\* a repetition counts the iterations made so far
RECURSIVE RxRun(_, _, _)
RxRun(re, s, starts) ==
  IF starts = <<>> THEN <<>>
  ELSE IF Len(starts) > 1
    THEN AppendNew(RxRun(re, s, SubSeq(starts, 1, Len(starts) \div 2)),
                   RxRun(re, s, SubSeq(starts, Len(starts) \div 2 + 1, Len(starts))))
  ELSE LET i == starts[1].e
       IN  CASE re.t = "lit" ->
                  IF i + Len(re.s) <= Len(s) /\ SubSeq(s, i + 1, i + Len(re.s)) = re.s
                    THEN <<[e |-> i + Len(re.s), c |-> starts[1].c]>> ELSE <<>>
             [] re.t \in {"cls", "ncls"} ->
                  IF i < Len(s) /\ InCls(re, CharAt(s, i + 1))
                    THEN <<[e |-> i + 1, c |-> starts[1].c]>> ELSE <<>>
             [] re.t = "wb" -> IF IsWordAt(s, i) # IsWordAt(s, i + 1) THEN starts ELSE <<>>
             [] re.t = "bol" -> IF i = 0 THEN starts ELSE <<>>
             [] re.t = "eol" -> IF i = Len(s) THEN starts ELSE <<>>
             [] re.t = "cat" ->
                  IF re.rs = <<>> THEN starts
                  ELSE RxRun(Cat(Tail(re.rs)), s, RxRun(Head(re.rs), s, starts))
             [] re.t = "alt" ->
                  IF re.rs = <<>> THEN <<>>
                  ELSE AppendNew(RxRun(Head(re.rs), s, starts), RxRun(Alt(Tail(re.rs)), s, starts))
             [] re.t = "grp" ->
                  Captured(RxRun(re.r, s, <<At(i)>>), i)
             [] re.t = "rep" /\ re.r.t \in {"cls", "ncls"} -> ClassRuns(re, s, i, starts[1].c)
             [] re.t = "rep" /\ re.r.t \notin {"cls", "ncls"} ->
                  IF re.lazy
                    THEN AppendNew(IF re.n >= re.lo THEN starts ELSE <<>>,
                                   IF re.hi >= 0 /\ re.n >= re.hi THEN <<>>
                                   ELSE RxRun([re EXCEPT !.n = re.n + 1], s,
                                              SelectSeq(RxRun(re.r, s, starts), LAMBDA m : m.e > i)))
                    ELSE AppendNew(IF re.hi >= 0 /\ re.n >= re.hi THEN <<>>
                                   ELSE RxRun([re EXCEPT !.n = re.n + 1], s,
                                              SelectSeq(RxRun(re.r, s, starts), LAMBDA m : m.e > i)),
                                   IF re.n >= re.lo THEN starts ELSE <<>>)

\* the ends (and captures) of the matches of re at offset i of s, in the
\* order a backtracking matcher tries them
RxM(re, s, i) == RxRun(re, s, <<At(i)>>)

NoMatch == [found |-> FALSE, from |-> 0, to |-> 0, c |-> <<>>]

\* the first of the results ms of matching at offset lo, as a match
FirstResult(ms, lo) ==
  IF ms # <<>> THEN [found |-> TRUE, from |-> lo, to |-> ms[1].e, c |-> ms[1].c] ELSE NoMatch

\* the match left when there is one, the match right otherwise
LeftMost(left, right) == IF left.found THEN left ELSE right

\* the match at the least offset in lo..hi
RECURSIVE RxSearchRange(_, _, _, _)
RxSearchRange(re, s, lo, hi) ==
  IF lo > hi THEN NoMatch
  ELSE IF lo = hi THEN FirstResult(RxM(re, s, lo), lo)
  ELSE LeftMost(RxSearchRange(re, s, lo, (lo + hi) \div 2),
                RxSearchRange(re, s, (lo + hi) \div 2 + 1, hi))

\* str.match(re) / re.exec(str) without the g flag: the leftmost match
RxSearch(re, s) == RxSearchRange(re, s, 0, Len(s))

\* re.test(str)
RxTest(re, s) == RxSearch(re, s).found

\* match[1] of a match m found in (a lower-cased copy of) s; Null when the
\* group took no part in the match
Group1(m, s) == IF m.found /\ m.c # <<>> THEN SubSeq(s, m.c[1] + 1, m.c[2]) ELSE Null

\* str.replace(re, repl) without the g flag, m being the match of re in (a
\* lower-cased copy of) s
RxReplaceFirst(m, s, repl) ==
  IF m.found THEN SubSeq(s, 1, m.from) \o repl \o SubSeq(s, m.to + 1, Len(s)) ELSE s

\* re.test(str), str.match(re)[1] and str.replace(re, repl) for a pattern
\* with the i flag
RxTestI(re, s) == RxTest(re, ToLowerCase(s))

MatchI(re, s) == Group1(RxSearch(re, ToLowerCase(s)), s)

ReplaceFirstI(re, s, repl) == RxReplaceFirst(RxSearch(re, ToLowerCase(s)), s, repl)

\* str.match(re)[1] and str.replace(re, repl) for a pattern without flags
Match(re, s) == Group1(RxSearch(re, s), s)

ReplaceFirst(re, s, repl) == RxReplaceFirst(RxSearch(re, s), s, repl)

\* what a step leaves in a nullable string field: a field that is set is not
\* touched; otherwise the field takes what the step assigns, Null standing
\* for a step that assigns nothing
Keep(found, assigned) ==
  IF ~Falsy(found) THEN found ELSE IF assigned = Null THEN found ELSE assigned

\* words separated by \s+ : the pattern w1\s+w2\s+...
Phrase(ws) == Cat([k \in 1..(2 * Len(ws) - 1) |-> IF k % 2 = 1 THEN Lit(ws[(k + 1) \div 2]) ELSE Plus(RxSpace)])

\* alternatives that are plain words: (?:w1|w2|...)
AnyOf(ws) == Alt([k \in 1..Len(ws) |-> Lit(ws[k])])

(***************************************************************************)
(* String helpers of the server code.                                      *)
(***************************************************************************)
\* str.replace(/[class]+/g, repl) on positions lo..hi: every maximal run of
\* the class becomes repl (the first character of a run is replaced, the
\* others are dropped)
RECURSIVE ReplaceRunsRange(_, _, _, _, _)
ReplaceRunsRange(s, cls, repl, lo, hi) ==
  IF lo > hi THEN ""
  ELSE IF lo = hi
    THEN (IF ~InCls(cls, CharAt(s, lo)) THEN CharAt(s, lo)
          ELSE IF lo > 1 /\ InCls(cls, CharAt(s, lo - 1)) THEN ""
          ELSE repl)
  ELSE ReplaceRunsRange(s, cls, repl, lo, (lo + hi) \div 2)
         \o ReplaceRunsRange(s, cls, repl, (lo + hi) \div 2 + 1, hi)

ReplaceRuns(s, cls, repl) == ReplaceRunsRange(s, cls, repl, 1, Len(s))

\* str.replace(/[class]/g, repl): every character of the class becomes repl
RECURSIVE ReplaceEachRange(_, _, _, _, _)
ReplaceEachRange(s, cls, repl, lo, hi) ==
  IF lo > hi THEN ""
  ELSE IF lo = hi THEN (IF InCls(cls, CharAt(s, lo)) THEN repl ELSE CharAt(s, lo))
  ELSE ReplaceEachRange(s, cls, repl, lo, (lo + hi) \div 2)
         \o ReplaceEachRange(s, cls, repl, (lo + hi) \div 2 + 1, hi)

ReplaceEach(s, cls, repl) == ReplaceEachRange(s, cls, repl, 1, Len(s))

\* str.replace(/\r\n/g, '\n').replace(/\r/g, '\n') on positions lo..hi: a \r
\* becomes \n and the \n right after a \r is dropped
RECURSIVE NormalizeBreaksRange(_, _, _)
NormalizeBreaksRange(s, lo, hi) ==
  IF lo > hi THEN ""
  ELSE IF lo = hi
    THEN (IF CharAt(s, lo) = "\r" THEN "\n"
          ELSE IF CharAt(s, lo) = "\n" /\ lo > 1 /\ CharAt(s, lo - 1) = "\r" THEN ""
          ELSE CharAt(s, lo))
  ELSE NormalizeBreaksRange(s, lo, (lo + hi) \div 2)
         \o NormalizeBreaksRange(s, (lo + hi) \div 2 + 1, hi)

NormalizeBreaks(s) == NormalizeBreaksRange(s, 1, Len(s))

\* the last position in lo..hi whose character is not of class re; lo - 1
\* when there is none
RECURSIVE LastOutside(_, _, _, _)
LastOutside(re, s, lo, hi) ==
  IF lo > hi THEN lo - 1
  ELSE IF lo = hi THEN (IF InCls(re, CharAt(s, lo)) THEN lo - 1 ELSE lo)
  ELSE LET mid   == (lo + hi) \div 2
           right == LastOutside(re, s, mid + 1, hi)
       IN  IF right > mid THEN right ELSE LastOutside(re, s, lo, mid)

\* String.prototype.trim
Trim(s) == SubSeq(s, FirstOutside(RxSpace, s, 1, Len(s)), LastOutside(RxSpace, s, 1, Len(s)))

\* the first position in lo..hi that holds the character sep; hi + 1 when
\* there is none
NextSep(s, sep, lo, hi) == FirstOutside(NotCls({sep}), s, lo, hi)

\* str.split(sep) for a one-character separator, from position from on
RECURSIVE SplitFrom(_, _, _)
SplitFrom(s, sep, from) ==
  LET at == NextSep(s, sep, from, Len(s))
  IN  IF at > Len(s) THEN <<SubSeq(s, from, Len(s))>>
      ELSE <<SubSeq(s, from, at - 1)>> \o SplitFrom(s, sep, at + 1)

Split(s, sep) == SplitFrom(s, sep, 1)

\* array.filter(Boolean) on an array of strings
FilterBoolean(xs) == SelectSeq(xs, LAMBDA x : x # "")

\* array.join(sep)
RECURSIVE Join(_, _)
Join(xs, sep) ==
  IF xs = <<>> THEN ""
  ELSE IF Len(xs) = 1 THEN xs[1]
  ELSE xs[1] \o sep \o Join(Tail(xs), sep)

normalizeWhitespace(text) == Trim(ReplaceRuns(OrEmpty(text), RxSpace, " "))

toSingleLine(text) == normalizeWhitespace(ReplaceRuns(OrEmpty(text), Cls({"\r", "\n"}), " "))


(***************************************************************************)
(* Field extractor: cleanupName and parseCertificateFields.                *)
(***************************************************************************)
\* the class [A-Za-z'.,\-\s] of the name patterns, lower-cased; the code's
\* own copy in cleanupName is case-sensitive
NameCharsLower == LowerSet \cup SpaceSet \cup {"'", ".", ",", "-"}

NameChars == NameCharsLower \cup UpperSet

\* /\b(has\s+passed|successfully\s+completed|completed\s+all\s+course\s+work)\b.*$/i
RxNameTail == Cat(<<WordB,
                    Alt(<<Phrase(<<"has", "passed">>),
                          Phrase(<<"successfully", "completed">>),
                          Phrase(<<"completed", "all", "course", "work">>)>>),
                    WordB, Star(RxDot), Eol>>)

\* /[.,\-\s]+$/
RxTrailingPunct == Cat(<<Plus(Cls(SpaceSet \cup {".", ",", "-"})), Eol>>)

\* the minimum number of words cleanupName accepts as a name
MinNameWords == 2

\* the checks without the word count
AcceptName_AnyWords(cleaned) ==
  IF cleaned = "" THEN Null ELSE cleaned

\* the checks cleanupName makes on the cleaned text
AcceptName(cleaned) ==
  IF cleaned = "" THEN Null
  ELSE IF Len(FilterBoolean(Split(cleaned, " "))) < MinNameWords THEN Null
  ELSE cleaned

cleanupName(value) ==
  IF Falsy(value) THEN Null
  ELSE AcceptName(Trim(ReplaceFirst(RxTrailingPunct,
         Trim(ReplaceRuns(ReplaceEach(ReplaceFirstI(RxNameTail, toSingleLine(value), ""),
                                      NotCls(NameChars), " "),
                          RxSpace, " ")),
         "")))

\* /\b(awarded\s+to|this\s+certificate\s+awarded\s+to)\b/i
RxAwardLine == Cat(<<WordB,
                     Alt(<<Phrase(<<"awarded", "to">>),
                           Phrase(<<"this", "certificate", "awarded", "to">>)>>),
                     WordB>>)

\* /\b(has\s+passed|completed\s+all\s+course\s+work|course\s+work)\b/i
RxNameStop == Cat(<<WordB,
                    Alt(<<Phrase(<<"has", "passed">>),
                          Phrase(<<"completed", "all", "course", "work">>),
                          Phrase(<<"course", "work">>)>>),
                    WordB>>)

\* /awarded\s+to\s*\n+([\s\S]{0,120}?)\n+has\s+passed/i
RxBlockRecipient == Cat(<<Phrase(<<"awarded", "to">>), Star(RxSpace), Plus(Lit("\n")),
                          Grp(RepLazy(RxAny, 0, 120)),
                          Plus(Lit("\n")), Phrase(<<"has", "passed">>)>>)

\* ([A-Z][A-Za-z'.,\-\s]{2,80}) under the i flag
RxNameGroup == Grp(Cat(<<Cls(LowerSet), Rep(Cls(NameCharsLower), 2, 80)>>))

RxColonDash == Cls({":", "-"})

recipientPatterns ==
  << Cat(<<AnyOf(<<"awarded", "presented", "issued", "granted">>), Plus(RxSpace), Lit("to"),
           Star(RxSpace), Opt(RxColonDash), Star(RxSpace), RxNameGroup>>),
     Cat(<<AnyOf(<<"participant", "student", "member", "recipient", "name">>),
           Star(RxSpace), RxColonDash, Star(RxSpace), RxNameGroup>>),
     Cat(<<Lit("this certifies that"), Plus(RxSpace), RxNameGroup>>),
     Cat(<<Lit("completed by"), Star(RxSpace), Opt(RxColonDash), Star(RxSpace), RxNameGroup>>) >>

\* array.findIndex(line => re.test(line)), 1-based; 0 when no line matches
RECURSIVE FindLineFrom(_, _, _)
FindLineFrom(re, lines, i) ==
  IF i > Len(lines) THEN 0
  ELSE IF RxTestI(re, lines[i]) THEN i
  ELSE FindLineFrom(re, lines, i + 1)

FindLine(re, lines) == FindLineFrom(re, lines, 1)

Min(a, b) == IF a < b THEN a ELSE b

\* how many lines after the award line the scan looks at
AwardScanLines == 3

\* the for loop of the recipient scan, from line i (1-based) up to line last
RECURSIVE ScanRecipient(_, _, _)
ScanRecipient(lines, i, last) ==
  IF i > last THEN Null
  ELSE IF RxTestI(RxNameStop, lines[i]) THEN Null
  ELSE Keep(cleanupName(lines[i]), ScanRecipient(lines, i + 1, last))

\* the same scan started on the award line itself
RecipientByLine_FromAwardLine(lines, awardLineIdx) ==
  IF awardLineIdx >= 1
    THEN ScanRecipient(lines, awardLineIdx, Min(awardLineIdx + AwardScanLines, Len(lines)))
    ELSE Null

\* the scan of the lines after the award line (1-based index; 0: no such line)
RecipientByLine(lines, awardLineIdx) ==
  IF awardLineIdx >= 1
    THEN ScanRecipient(lines, awardLineIdx + 1, Min(awardLineIdx + AwardScanLines, Len(lines)))
    ELSE Null

\* the loop over recipientPatterns, from pattern k on
RECURSIVE TryRecipientPatterns(_, _)
TryRecipientPatterns(compact, k) ==
  IF k > Len(recipientPatterns) THEN Null
  ELSE Keep(cleanupName(MatchI(recipientPatterns[k], compact)),
            TryRecipientPatterns(compact, k + 1))

ExtractRecipient(lines, multiline, compact) ==
  Keep(Keep(RecipientByLine(lines, FindLine(RxAwardLine, lines)),
            cleanupName(MatchI(RxBlockRecipient, multiline))),
       TryRecipientPatterns(compact, 1))

\* the same anchor without "completed all"
RxCourseWorkLine_AnyCourseWork == Cat(<<WordB, Phrase(<<"course", "work", "in">>), WordB>>)

\* /\bcompleted\s+all\s+course\s+work\s+in\b/i
RxCourseWorkLine == Cat(<<WordB, Phrase(<<"completed", "all", "course", "work", "in">>), WordB>>)

\* \d+(?:\.\d+)?
RxDecimal == Cat(<<Plus(RxDigit), Opt(Cat(<<Lit("."), Plus(RxDigit)>>))>>)

\* hours?
RxHours == Cat(<<Lit("hour"), Opt(Lit("s"))>>)

\* /\(\s*\d+(?:\.\d+)?\s*hours?\s*\)/i
RxParenHours == Cat(<<Lit("("), Star(RxSpace), RxDecimal, Star(RxSpace), RxHours, Star(RxSpace), Lit(")")>>)

\* /\b(log\s+number|date|location|director)\b/i
RxClassStop == Cat(<<WordB,
                     Alt(<<Phrase(<<"log", "number">>), Lit("date"), Lit("location"), Lit("director")>>),
                     WordB>>)

\* [A-Z]{2,6}-\d{2,4}-[A-Z0-9]{2,8}-\d{4} under the i flag
RxMfriId == Cat(<<Rep(Cls(LowerSet), 2, 6), Lit("-"), Rep(RxDigit, 2, 4), Lit("-"),
                  Rep(Cls(LowerSet \cup DigitSet), 2, 8), Lit("-"), Rep(RxDigit, 4, 4)>>)

\* /^[A-Z]{2,6}-\d{2,4}-[A-Z0-9]{2,8}-\d{4}\b/i
RxMfriIdLine == Cat(<<Bol, RxMfriId, WordB>>)

\* /completed\s+all\s+course\s+work\s+in\s*\n+([\s\S]{0,180}?)\n+\(?\s*\d+(?:\.\d+)?\s*hours?\s*\)?/i
RxClassBlock == Cat(<<Phrase(<<"completed", "all", "course", "work", "in">>), Star(RxSpace),
                      Plus(Lit("\n")), Grp(RepLazy(RxAny, 0, 180)), Plus(Lit("\n")),
                      Opt(Lit("(")), Star(RxSpace), RxDecimal, Star(RxSpace), RxHours,
                      Star(RxSpace), Opt(Lit(")"))>>)

\* ([^\n]{3,120})
RxTitleGroup == Grp(Rep(NotCls({"\n"}), 3, 120))

classPatterns ==
  << Cat(<<AnyOf(<<"course", "class", "training", "program">>), Star(RxSpace),
           Opt(AnyOf(<<"title", "name">>)), Star(RxSpace), RxColonDash, Star(RxSpace), RxTitleGroup>>),
     Cat(<<Lit("has successfully completed"), Plus(RxSpace), RxTitleGroup>>),
     Cat(<<Lit("successful completion of"), Plus(RxSpace), RxTitleGroup>>),
     Cat(<<Lit("successfully completed"), Plus(RxSpace), RxTitleGroup>>) >>

\* /\s+(on|dated?)\s+.*$/i
RxOnDated == Cat(<<Plus(RxSpace), Alt(<<Lit("on"), Cat(<<Lit("date"), Opt(Lit("d"))>>)>>),
                   Plus(RxSpace), Star(RxDot), Eol>>)

\* how many lines after the course-work line the scan looks at
ClassScanLines == 5

\* the for loop collecting classParts, from line i (1-based) up to line last
RECURSIVE ScanClassParts(_, _, _)
ScanClassParts(lines, i, last) ==
  IF i > last THEN <<>>
  ELSE IF RxTestI(RxParenHours, lines[i]) THEN <<>>
  ELSE IF RxTestI(RxClassStop, lines[i]) THEN <<>>
  ELSE IF RxTestI(RxMfriIdLine, lines[i]) THEN <<>>
  ELSE <<lines[i]>> \o ScanClassParts(lines, i + 1, last)

\* the class name made of the collected lines; Null when there are none
JoinedClass(classParts) ==
  IF classParts # <<>> THEN toSingleLine(Join(classParts, " ")) ELSE Null

\* the scan of the lines after the course-work line (1-based index; 0: no
\* such line)
ClassByLine(lines, courseWorkLineIdx) ==
  IF courseWorkLineIdx >= 1
    THEN JoinedClass(ScanClassParts(lines, courseWorkLineIdx + 1,
                                    Min(courseWorkLineIdx + ClassScanLines, Len(lines))))
    ELSE Null

\* toSingleLine of the captured block; Null when nothing was captured
ClassOfBlock(classBlock) == IF Falsy(classBlock) THEN Null ELSE toSingleLine(classBlock)

\* the candidate of a class pattern's capture, when it is taken
AcceptClass(candidate) ==
  IF candidate # "" /\ CharAt(candidate, 1) \notin DigitSet THEN candidate ELSE Null

ClassOfMatch(g) ==
  IF Falsy(g) THEN Null
  ELSE AcceptClass(Trim(ReplaceFirstI(RxOnDated, normalizeWhitespace(g), "")))

\* the loop over classPatterns, from pattern k on
RECURSIVE TryClassPatterns(_, _)
TryClassPatterns(compact, k) ==
  IF k > Len(classPatterns) THEN Null
  ELSE Keep(ClassOfMatch(MatchI(classPatterns[k], compact)), TryClassPatterns(compact, k + 1))

ExtractTrainingClass(lines, multiline, compact) ==
  Keep(Keep(ClassByLine(lines, FindLine(RxCourseWorkLine, lines)),
            ClassOfBlock(MatchI(RxClassBlock, multiline))),
       TryClassPatterns(compact, 1))

(***************************************************************************)
(* Numbers are counted in thousandths: 12.0 is 12000.  A nullable number   *)
(* is <<>> (null) or <<n>>.                                                *)
(***************************************************************************)
\* the first three digits after the point, as thousandths
FracValue(f) == DigitsValue(SubSeq(f \o "000", 1, 3))

\* /^\s*[+-]?(\d+)(?:\.(\d*))?/ : the numeric prefix parseFloat reads (no
\* exponent, no leading point)
RxFloatPrefix == Cat(<<Bol, Star(RxSpace), Opt(Cls({"+", "-"})), Plus(RxDigit)>>)

\* parseFloat(value), m being the match of its numeric prefix
ParseFloat(value, m) ==
  IF ~m.found THEN <<>>
  ELSE LET intFrom  == FirstOutside(NotCls(DigitSet), value, 1, m.to)
           intPart  == SubSeq(value, intFrom, m.to)
           negative == intFrom > 1 /\ CharAt(value, intFrom - 1) = "-"
           fracLen  == IF m.to < Len(value) /\ CharAt(value, m.to + 1) = "."
                         THEN RunLen(RxDigit, value, m.to + 1, -1) ELSE 0
           frac     == SubSeq(value, m.to + 2, m.to + 1 + fracLen)
           abs      == 1000 * DigitsValue(intPart) + FracValue(frac)
       IN  <<IF negative THEN 0 - abs ELSE abs>>

\* toSafeNumber: parseFloat(value), null when the result is not finite
toSafeNumber(value) == ParseFloat(value, RxSearch(RxFloatPrefix, value))

\* the patterns with a sign in front of the captured number
hoursPatterns_Signed ==
  << Cat(<<Lit("total"), Star(RxSpace), Opt(Cat(<<Lit("training"), Star(RxSpace)>>)), RxHours,
           Star(RxSpace), Opt(RxColonDash), Star(RxSpace), Grp(Cat(<<Opt(Lit("-")), RxDecimal>>))>>),
     Cat(<<Grp(Cat(<<Opt(Lit("-")), RxDecimal>>)), Star(RxSpace),
           Opt(Cat(<<Lit("clock"), Star(RxSpace)>>)),
           Alt(<<RxHours, Cat(<<Lit("hr"), Opt(Lit("s"))>>)>>), WordB>>),
     Cat(<<Lit("hours"), Star(RxSpace), Lit("completed"), Star(RxSpace), Opt(RxColonDash),
           Star(RxSpace), Grp(Cat(<<Opt(Lit("-")), RxDecimal>>))>>) >>

hoursPatterns ==
  << Cat(<<Lit("total"), Star(RxSpace), Opt(Cat(<<Lit("training"), Star(RxSpace)>>)), RxHours,
           Star(RxSpace), Opt(RxColonDash), Star(RxSpace), Grp(RxDecimal)>>),
     Cat(<<Grp(RxDecimal), Star(RxSpace), Opt(Cat(<<Lit("clock"), Star(RxSpace)>>)),
           Alt(<<RxHours, Cat(<<Lit("hr"), Opt(Lit("s"))>>)>>), WordB>>),
     Cat(<<Lit("hours"), Star(RxSpace), Lit("completed"), Star(RxSpace), Opt(RxColonDash),
           Star(RxSpace), Grp(RxDecimal)>>) >>

\* match && match[1] ? toSafeNumber(match[1]) : null
HoursOfMatch(g) == IF ~Falsy(g) THEN toSafeNumber(g) ELSE <<>>

\* the number hours when it is not null, the number next otherwise
FirstNumber(hours, next) == IF hours # <<>> THEN hours ELSE next

\* the loop over hoursPatterns, from pattern k on
RECURSIVE ExtractHoursFrom(_, _)
ExtractHoursFrom(compact, k) ==
  IF k > Len(hoursPatterns) THEN <<>>
  ELSE FirstNumber(HoursOfMatch(MatchI(hoursPatterns[k], compact)),
                   ExtractHoursFrom(compact, k + 1))

ExtractHours(compact) == ExtractHoursFrom(compact, 1)

\* /\b([A-Z]{2,6}-\d{2,4}-[A-Z0-9]{2,8}-\d{4})\b/i
RxMfriIdDirect == Cat(<<WordB, Grp(RxMfriId), WordB>>)

\* (?:id|number|no\.?|#)
RxIdLabel == Alt(<<Lit("id"), Lit("number"), Cat(<<Lit("no"), Opt(Lit("."))>>), Lit("#")>>)

\* [A-Z0-9\-_/] under the i flag
IdChars == LowerSet \cup DigitSet \cup {"-", "_", "/"}

\* ([A-Z0-9][A-Z0-9\-_/]{2,30})
RxIdGroup == Grp(Cat(<<Cls(LowerSet \cup DigitSet), Rep(Cls(IdChars), 2, 30)>>))

\* the course/class/program pattern alone
idPatterns_CourseOnly ==
  << Cat(<<AnyOf(<<"course", "class", "program">>), Star(RxSpace), RxIdLabel, Star(RxSpace),
           Opt(RxColonDash), Star(RxSpace), RxIdGroup>>) >>

idPatterns ==
  << Cat(<<AnyOf(<<"course", "class", "program">>), Star(RxSpace), RxIdLabel, Star(RxSpace),
           Opt(RxColonDash), Star(RxSpace), RxIdGroup>>),
     Cat(<<AnyOf(<<"certificate", "log">>), Star(RxSpace), RxIdLabel, Star(RxSpace),
           Opt(RxColonDash), Star(RxSpace), RxIdGroup>>) >>

\* match[1].toUpperCase() and match[1].trim() of a capture that is there
UpperOfMatch(g) == IF Falsy(g) THEN Null ELSE ToUpperCase(g)

TrimOfMatch(g) == IF Falsy(g) THEN Null ELSE Trim(g)

\* the loop over idPatterns, from pattern k on
RECURSIVE TryIdPatterns(_, _)
TryIdPatterns(compact, k) ==
  IF k > Len(idPatterns) THEN Null
  ELSE Keep(TrimOfMatch(MatchI(idPatterns[k], compact)), TryIdPatterns(compact, k + 1))

ExtractCourseIdentifier(compact) ==
  Keep(UpperOfMatch(MatchI(RxMfriIdDirect, compact)), TryIdPatterns(compact, 1))

\* /\blog\s*(?:number|no\.?|#)\s*[:\-]?\s*([A-Z0-9\-_/]{2,30})/i
RxLogNumber == Cat(<<WordB, Lit("log"), Star(RxSpace),
                     Alt(<<Lit("number"), Cat(<<Lit("no"), Opt(Lit("."))>>), Lit("#")>>),
                     Star(RxSpace), Opt(RxColonDash), Star(RxSpace), Grp(Rep(Cls(IdChars), 2, 30))>>)

ExtractLogNumber(compact) == TrimOfMatch(MatchI(RxLogNumber, compact))


(***************************************************************************)
(* Dates.  new Date(text) is modelled for the two shapes the date patterns *)
(* capture, the way the V8 legacy date parser reads them: "Month d, yyyy"  *)
(* (a month is known by its first three letters; with an unknown word the  *)
(* two numbers are read as month and day of the default year 2001) and     *)
(* "m/d/y" with the separators / - and . (year first when the first number *)
(* is no day of a month).  The server's time zone is taken to be UTC.  A   *)
(* date is <<year, month, day>>; an invalid date is <<>>.                  *)
(***************************************************************************)
MonthNames == <<"jan", "feb", "mar", "apr", "may", "jun", "jul", "aug", "sep", "oct", "nov", "dec">>

\* the month a word names by its first three letters p; 0 when it names none
MonthOfPrefix(p) ==
  IF \E m \in 1..12 : MonthNames[m] = p THEN CHOOSE m \in 1..12 : MonthNames[m] = p ELSE 0

MonthOf(word) == MonthOfPrefix(ToLowerCase(SubSeq(word, 1, 3)))

IsLeap(y) == (y % 4 = 0 /\ y % 100 # 0) \/ y % 400 = 0

DaysInMonth(y, m) ==
  IF m = 2 THEN (IF IsLeap(y) THEN 29 ELSE 28)
  ELSE IF m \in {4, 6, 9, 11} THEN 30 ELSE 31

\* a two-digit year is of the century it most likely means
FullYear(y) == IF y <= 49 THEN y + 2000 ELSE IF y <= 99 THEN y + 1900 ELSE y

IsDay(d) == d >= 1 /\ d <= 31

IsMonth(m) == m >= 1 /\ m <= 12

\* MakeDay: a day past the end of the month counts on into the next month
MakeDate(y, m, d) ==
  IF ~IsMonth(m) \/ ~IsDay(d) THEN <<>>
  ELSE IF d > DaysInMonth(y, m) THEN <<y, m + 1, d - DaysInMonth(y, m)>>
  ELSE <<y, m, d>>

DateSeparators == {"/", "-", "."}

\* "Word a, b": the word is wordLn long
WordDate(value, wordLn) ==
  LET Made(month, a, b) ==
        IF month = 0 THEN MakeDate(2001, a, b)
        ELSE IF IsDay(a) THEN MakeDate(FullYear(b), month, a)
        ELSE MakeDate(FullYear(a), month, b)
      Read(dFrom, dLen, yFrom) ==
        Made(MonthOf(SubSeq(value, 1, wordLn)),
             DigitsValue(SubSeq(value, dFrom + 1, dFrom + dLen)),
             DigitsValue(SubSeq(value, yFrom + 1, Len(value))))
      FromDay(dFrom, dLen) ==
        Read(dFrom, dLen, dFrom + dLen + 1 + RunLen(RxSpace, value, dFrom + dLen + 1, -1))
      From(dFrom) == FromDay(dFrom, RunLen(RxDigit, value, dFrom, -1))
  IN  From(wordLn + RunLen(RxSpace, value, wordLn, -1))

\* "a/b/c": the first number is aLen digits long
NumericDate(value, aLen) ==
  LET Made(a, b, c) ==
        IF ~IsDay(a) THEN MakeDate(FullYear(a), b, c) ELSE MakeDate(FullYear(c), a, b)
      Read(bLen) ==
        Made(DigitsValue(SubSeq(value, 1, aLen)),
             DigitsValue(SubSeq(value, aLen + 2, aLen + 1 + bLen)),
             DigitsValue(SubSeq(value, aLen + bLen + 3, Len(value))))
  IN  Read(RunLen(RxDigit, value, aLen + 1, -1))

\* a trimmed date text that starts with a word wordLn long, or with a number
DateOfValue(value, wordLn) ==
  IF wordLn > 0 THEN WordDate(value, wordLn)
  ELSE NumericDate(value, RunLen(RxDigit, value, 0, -1))

\* the length of the word a trimmed date text starts with
LeadingWord(value) == RunLen(Cls(LowerSet \cup UpperSet), value, 0, -1)

\* new Date(text) for "Word d, y" and "a/b/c"
DateParse(text) == DateOfValue(Trim(text), LeadingWord(Trim(text)))

\* the decimal digits of n, at least width of them
RECURSIVE PadNumber(_, _)
PadNumber(n, width) ==
  IF n < 10 /\ width <= 1 THEN CharAt(Digits09, n + 1)
  ELSE PadNumber(n \div 10, width - 1) \o CharAt(Digits09, (n % 10) + 1)

\* Date.prototype.toISOString of local midnight
toISOString(d) == PadNumber(d[1], 4) \o "-" \o PadNumber(d[2], 2) \o "-" \o PadNumber(d[3], 2) \o "T00:00:00.000Z"

\* /(\d{1,2})\.(\d{1,2})\.(\d{2,4})/
RxDottedDate == Cat(<<Rep(RxDigit, 1, 2), Lit("."), Rep(RxDigit, 1, 2), Lit("."), Rep(RxDigit, 2, 4)>>)

\* value.replace(re, '$1/$2/$3'), m being the match of the dotted date
SlashDotted(value, m) ==
  IF m.found
    THEN SubSeq(value, 1, m.from)
           \o ReplaceEach(SubSeq(value, m.from + 1, m.to), Cls({"."}), "/")
           \o SubSeq(value, m.to + 1, Len(value))
    ELSE value

\* the date parsed when it is valid, the date fallback otherwise
FirstDate(parsed, fallback) == IF parsed # <<>> THEN parsed ELSE fallback

tryParseDate(value) ==
  IF Falsy(value) THEN <<>>
  ELSE FirstDate(DateParse(value), DateParse(SlashDotted(value, RxSearch(RxDottedDate, value))))

\* (?:completion|course|class|issued?|date)\s*(?:date)?\s*[:\-]\s*
RxDateLabel == Cat(<<Alt(<<Lit("completion"), Lit("course"), Lit("class"),
                           Cat(<<Lit("issue"), Opt(Lit("d"))>>), Lit("date")>>),
                     Star(RxSpace), Opt(Lit("date")), Star(RxSpace), RxColonDash, Star(RxSpace)>>)

\* [A-Za-z]{3,9}\s+\d{1,2},\s+\d{2,4} (letters: the lower-cased class under
\* the i flag, both cases without it)
RxMonthDate(letters) == Cat(<<Rep(Cls(letters), 3, 9), Plus(RxSpace), Rep(RxDigit, 1, 2), Lit(","),
                              Plus(RxSpace), Rep(RxDigit, 2, 4)>>)

\* \d{1,2}[\/\-.]\d{1,2}[\/\-.]\d{2,4}
RxNumericDate == Cat(<<Rep(RxDigit, 1, 2), Cls(DateSeparators), Rep(RxDigit, 1, 2),
                       Cls(DateSeparators), Rep(RxDigit, 2, 4)>>)

\* the four date patterns; the first two carry the i flag
datePatterns ==
  << [re |-> Cat(<<RxDateLabel, Grp(RxMonthDate(LowerSet))>>), i |-> TRUE],
     [re |-> Cat(<<RxDateLabel, Grp(RxNumericDate)>>), i |-> TRUE],
     [re |-> Cat(<<WordB, Grp(RxMonthDate(LowerSet \cup UpperSet)), WordB>>), i |-> FALSE],
     [re |-> Cat(<<WordB, Grp(RxNumericDate), WordB>>), i |-> FALSE] >>

NoDate == [courseDate |-> Null, courseDateText |-> Null]

\* the date fields of a capture g that parsed to parsedDate; next when there
\* is no capture or it is no date
DateFields(g, parsedDate, next) ==
  IF Falsy(g) \/ parsedDate = <<>> THEN next
  ELSE [courseDate |-> toISOString(parsedDate), courseDateText |-> Trim(g)]

DateOfMatch(g, next) == DateFields(g, tryParseDate(g), next)

\* compact.match(pattern)[1] for a date pattern
MatchDate(p, compact) == IF p.i THEN MatchI(p.re, compact) ELSE Match(p.re, compact)

\* the loop over datePatterns, from pattern k on
RECURSIVE ExtractDateFrom(_, _)
ExtractDateFrom(compact, k) ==
  IF k > Len(datePatterns) THEN NoDate
  ELSE DateOfMatch(MatchDate(datePatterns[k], compact), ExtractDateFrom(compact, k + 1))

ExtractDate(compact) == ExtractDateFrom(compact, 1)

mfriMarkers ==
  << Cat(<<WordB, Phrase(<<"this", "certificate", "awarded", "to">>), WordB>>),
     Cat(<<WordB, Phrase(<<"has", "passed", "all", "examinations">>), WordB>>),
     Cat(<<WordB, Phrase(<<"completed", "all", "course", "work", "in">>), WordB>>),
     Cat(<<WordB, Phrase(<<"log", "number">>), WordB>>),
     Cat(<<WordB, RxMfriId, WordB>>) >>

\* how many markers make a text a likely MFRI certificate
MinMarkerHits == 2

\* the count without the course-id marker
markerHits_Phrases(compact) ==
  Cardinality({k \in 1..(Len(mfriMarkers) - 1) : RxTestI(mfriMarkers[k], compact)})

markerHits(compact) == Cardinality({k \in 1..Len(mfriMarkers) : RxTestI(mfriMarkers[k], compact)})

\* the lines of the text: split at \n, each with its whitespace normalized,
\* the empty ones dropped
NormalizedLines(raw) == FilterBoolean([k \in 1..Len(raw) |-> normalizeWhitespace(raw[k])])

LinesOf(multiline) == NormalizedLines(Split(multiline, "\n"))

\* the record parseCertificateFields starts from
EmptyExtraction(text) ==
  [threw |-> FALSE, rawText |-> text, recipientName |-> Null, trainingClassName |-> Null,
   hoursLogged |-> <<>>, courseIdentifier |-> Null, logNumber |-> Null,
   courseDate |-> Null, courseDateText |-> Null, isLikelyMfri |-> FALSE]

\* the record with the fields of the date pattern that matched
WithDate(fields, date) ==
  [fields EXCEPT !.courseDate = date.courseDate, !.courseDateText = date.courseDateText]

\* parseCertificateFields from const extracted on
ExtractFields(text, multiline, lines, compact) ==
  IF compact = "" THEN EmptyExtraction(text)
  ELSE WithDate([EmptyExtraction(text) EXCEPT
                   !.recipientName = ExtractRecipient(lines, multiline, compact),
                   !.trainingClassName = ExtractTrainingClass(lines, multiline, compact),
                   !.hoursLogged = ExtractHours(compact),
                   !.courseIdentifier = ExtractCourseIdentifier(compact),
                   !.logNumber = ExtractLogNumber(compact),
                   !.isLikelyMfri = markerHits(compact) >= MinMarkerHits],
                ExtractDate(compact))

ParseNormalized(text, multiline) ==
  ExtractFields(text, multiline, LinesOf(multiline), toSingleLine(multiline))

\* parseCertificateFields from the point where text is known to be a string
ParseText(text) == ParseNormalized(text, NormalizeBreaks(text))

(***************************************************************************)
(* A JavaScript value handed to parseCertificateFields: [type, v], where v *)
(* is the text of a string and "" for every other type.                    *)
(***************************************************************************)
JsString(text) == [type |-> "string", v |-> text]

JsOther(type) == [type |-> type, v |-> ""]

parseCertificateFields(rawText_) ==
  ParseText(IF rawText_.type = "string" THEN rawText_.v ELSE "")


(***************************************************************************)
(* State.                                                                  *)
(*                                                                         *)
(* Field extractor run on its own (SpecParse):                             *)
(*   rawText    the value handed to parseCertificateFields                 *)
(*   planted    how the text was built: [anchor, name, stop] lines, with   *)
(*              first = TRUE when no earlier line holds "awarded to";      *)
(*              NoPlant for a text built otherwise                         *)
(*   extracted  the record returned; NotRun before the call                *)
(***************************************************************************)
VARIABLES rawText, planted, extracted

(***************************************************************************)
(* POST /certificates/extract (SpecExtract):                               *)
(*   mimeType    the uploaded file's type; Null when no file came          *)
(*   extractPc   where the handler stands: "upload", "pdf", "ocr",         *)
(*               "respond", "done"; "idle" when no request is modelled     *)
(*   textChunks  the texts collected so far                                *)
(*   pdfOutcome, ocrOutcome  what pdfParse and Tesseract.recognize did     *)
(*   response    the JSON response: [status, error]                        *)
(***************************************************************************)
VARIABLES mimeType, extractPc, textChunks, pdfOutcome, ocrOutcome, response

(***************************************************************************)
(* Name matcher of the certificate manager page (SpecMatch):               *)
(*   directory      the users of the database: the positions of AllUsers   *)
(*                  that exist                                             *)
(*   nameString     the name looked up                                     *)
(*   searched       which of the two lookups have run                      *)
(*   bestMatch      the id findUserByName returned; Null for null          *)
(*   possibleUsers  the entries [id, score] findPossibleUsersByName        *)
(*                  returned                                               *)
(***************************************************************************)
VARIABLES directory, nameString, searched, bestMatch, possibleUsers

(***************************************************************************)
(* Certificate manager page (SpecPage).  queuedAutofillData and            *)
(* queuedAutofillSource are set and cleared within one handler and are     *)
(* null whenever a handler starts, so they are values inside the actions.  *)
(*   selectedUserId, selectedUserDetails  the script's variables           *)
(*   selectedUserName   the text of the element #selectedUserName          *)
(*   addForm            the add form: the class select, the date, hours    *)
(*                      and course number inputs, the class suggestion,    *)
(*                      and addAutofillContext's pendingClassName and      *)
(*                      pendingHours                                       *)
(*   autofillStatus, presearchStatus  the status elements: [message, level]*)
(*   presearchProcessing  the script's variable                            *)
(*   presearchDisabled  presearchUploadButton.disabled                     *)
(*   presearchFile      the file in presearchCertificateInput; Null: none  *)
(*   recipientsModal    the modal: [shown, detectedName, list, extracted]; *)
(*                      an extracted object is kept as <<object>>, <<>>    *)
(*                      being none                                         *)
(*   pipelines          the click handlers of the upload button that have  *)
(*                      started: [pc, file, extracted], pc being the await *)
(*                      the handler stands at, or "done"                   *)
(*   timers             the pending timeouts of selectMatchedRecipient     *)
(*   autofillRequests   the files of the handleAutofillFromFile calls that *)
(*                      await the server                                   *)
(*   autofillCalls      how many handleAutofillFromFile calls were made    *)
(*   addCertificateFile the file chosen in addCertificateFileInput, Null   *)
(*                      being none                                         *)
(***************************************************************************)
VARIABLES selectedUserId, selectedUserDetails, selectedUserName, addForm,
          autofillStatus, presearchStatus, presearchProcessing, presearchDisabled,
          presearchFile, recipientsModal, pipelines, timers, autofillRequests,
          autofillCalls, addCertificateFile

(***************************************************************************)
(* The name functions of the page applied to single inputs (SpecScore):    *)
(*   scQuery, scOther  two names                                           *)
(*   scUser            a user record                                       *)
(*   scScores          <<>>, or the scores of scQuery and scOther for      *)
(*                     scUser, in hundredths of a point                    *)
(*   scKeepNumbers     the keepNumbers of the calls of normalizeForMatch   *)
(*   scNormalized      scQuery normalized once, twice, ...                 *)
(*   scVariants        <<>>, or <<the variant set of scUser>>              *)
(***************************************************************************)
VARIABLES scQuery, scOther, scUser, scScores, scKeepNumbers, scNormalized, scVariants

(***************************************************************************)
(* Training submissions (SpecWorkflow):                                    *)
(*   submissions     the TrainingSubmission documents in the order of      *)
(*                   their creation; the position of one is its id         *)
(*   completedClass  <<>> while the student's qualification misses the     *)
(*                   class, <<id>> when its completedClasses entry for the *)
(*                   class names the submission id                         *)
(*   validations     the approve and reject requests that have read their  *)
(*                   submission and have not saved it yet                  *)
(***************************************************************************)
VARIABLES submissions, completedClass, validations

(***************************************************************************)
(* applyAutofillResult applied to single inputs (SpecApply):               *)
(*   applyInput   [extracted, form, canCreate]: the extracted object, the  *)
(*                form before the call and canCreateTrainingClass          *)
(*   applyResult  <<>>, or <<[form, status]>> the call left                *)
(***************************************************************************)
VARIABLES applyInput, applyResult

parseVars == <<rawText, planted, extracted>>

scoreVars == <<scQuery, scOther, scUser, scScores, scKeepNumbers, scNormalized, scVariants>>

flowVars == <<submissions, completedClass, validations>>

applyVars == <<applyInput, applyResult>>

restVars == <<scoreVars, flowVars, applyVars>>

selectedVars == <<selectedUserId, selectedUserDetails, selectedUserName>>

pageVars == <<selectedVars, addForm, autofillStatus, presearchStatus, presearchProcessing,
              presearchDisabled, presearchFile, recipientsModal, pipelines, timers,
              autofillRequests, autofillCalls, addCertificateFile>>

matchVars == <<directory, nameString, searched, bestMatch, possibleUsers>>

extractVars == <<mimeType, extractPc, textChunks, pdfOutcome, ocrOutcome, response>>

vars == <<parseVars, extractVars, matchVars, pageVars, restVars>>

\* the variables a specification of one part leaves alone
notParse == <<extractVars, matchVars, pageVars, restVars>>

notExtract == <<matchVars, pageVars, restVars>>

notMatch == <<parseVars, extractVars, pageVars, restVars>>

notPage == <<parseVars, extractVars, matchVars, restVars>>

notScore == <<parseVars, extractVars, matchVars, pageVars, flowVars, applyVars>>

notFlow == <<parseVars, extractVars, matchVars, pageVars, scoreVars, applyVars>>

notApply == <<parseVars, extractVars, matchVars, pageVars, scoreVars, flowVars>>

NoPlant == [anchor |-> Null, name |-> Null, stop |-> Null, first |-> FALSE]

NotRun == [EmptyExtraction("") EXCEPT !.rawText = Null]

\* no parseCertificateFields call is modelled
ParseIdle == rawText = JsOther("undefined") /\ planted = NoPlant /\ extracted = NotRun

\* what a library call did: kind is "notrun", "threw" or "text"
NotRunOutcome == [kind |-> "notrun", text |-> ""]

ThrewOutcome == [kind |-> "threw", text |-> ""]

TextOutcome(text) == [kind |-> "text", text |-> text]

NoResponse == [status |-> 0, error |-> Null]

\* no extraction request is modelled
ExtractIdle ==
  /\ mimeType = Null
  /\ extractPc = "idle"
  /\ textChunks = <<>>
  /\ pdfOutcome = NotRunOutcome
  /\ ocrOutcome = NotRunOutcome
  /\ response = NoResponse

\* no name lookup is modelled
MatchIdle ==
  /\ directory = {}
  /\ nameString = ""
  /\ searched = {}
  /\ bestMatch = Null
  /\ possibleUsers = <<>>

NoUserDetails ==
  [displayName |-> "", email |-> "", firstName |-> "", middleName |-> "", lastName |-> ""]

NoStatus == [message |-> <<>>, level |-> "muted"]

\* the inputs of a context and its class suggestion; createButton: the
\* button that opens the create-class dialog is shown.  A courseNumber of
\* Null is a context without courseNumberInput.
EmptyForm ==
  [trainingClass |-> "", startDate |-> "", endDate |-> "", hours |-> <<>>, courseNumber |-> "",
   suggestion |-> "", createButton |-> FALSE, pendingClassName |-> "", pendingHours |-> <<>>]

\* no call of applyAutofillResult is modelled
NoApplyInput == [extracted |-> <<>>, form |-> EmptyForm, canCreate |-> FALSE]

ModalHidden == [shown |-> FALSE, detectedName |-> "", list |-> <<>>, extracted |-> <<>>]

\* no page is modelled
PageIdle ==
  /\ selectedUserId = "" /\ selectedUserDetails = NoUserDetails /\ selectedUserName = ""
  /\ addForm = EmptyForm /\ autofillStatus = NoStatus /\ presearchStatus = NoStatus
  /\ presearchProcessing = FALSE /\ presearchDisabled = FALSE /\ presearchFile = Null
  /\ recipientsModal = ModalHidden /\ pipelines = <<>> /\ timers = 0
  /\ autofillRequests = <<>> /\ autofillCalls = 0 /\ addCertificateFile = Null

\* no name function is applied
ScoreIdle ==
  /\ scQuery = "" /\ scOther = "" /\ scUser = [id |-> ""]
  /\ scScores = <<>> /\ scKeepNumbers = FALSE /\ scNormalized = <<>> /\ scVariants = <<>>

\* no submission is modelled
FlowIdle == submissions = <<>> /\ completedClass = <<>> /\ validations = {}

ApplyIdle == applyInput = NoApplyInput /\ applyResult = <<>>

RestIdle == ScoreIdle /\ FlowIdle /\ ApplyIdle

\* the parts a specification does not model are idle
IdleButParse == ExtractIdle /\ MatchIdle /\ PageIdle /\ RestIdle

IdleButExtract == MatchIdle /\ PageIdle /\ RestIdle

IdleButMatch == ParseIdle /\ ExtractIdle /\ PageIdle /\ RestIdle

IdleButPage == ParseIdle /\ ExtractIdle /\ RestIdle

IdleButScore == ParseIdle /\ ExtractIdle /\ MatchIdle /\ PageIdle /\ FlowIdle /\ ApplyIdle

IdleButFlow == ParseIdle /\ ExtractIdle /\ MatchIdle /\ PageIdle /\ ScoreIdle /\ ApplyIdle

IdleButApply == ParseIdle /\ ExtractIdle /\ MatchIdle /\ PageIdle /\ ScoreIdle /\ FlowIdle

(***************************************************************************)
(* The certificate texts of the model.  A planted text is                  *)
(*   filler lines, an anchor line, a name line, a stop line, a tail.       *)
(***************************************************************************)
\* at most this many filler lines come before the anchor line
MaxFillerLines == 1

AnchorLines == {"AWARDED TO", "This Certificate Awarded To"}

NameLines == {"Jane A. Doe", "JOHN  SMITH", "Mary-Ann O'Neil", "Madonna", "John Smith Jr.", "R2 D2"}

StopLines == {"HAS PASSED ALL COURSE WORK IN",
              "HAS PASSED ALL EXAMINATIONS AND COMPLETED ALL COURSE WORK IN",
              "course work completed"}

\* a filler line without the anchor, and one that holds it
PlainFiller == "Maryland Fire and Rescue Institute"

AnchorFiller == "Awarded to the best"

FillerLines == {PlainFiller, AnchorFiller}

SpecTail == "Emergency Vehicle Operations\n(12.0 Hours)\nLOG NUMBER EVOC-24-0091"

Tails == {SpecTail,
          "Emergency Vehicle\nOperations\nEMS-202-S025-2025\n(12.5 Hours)\r\nDate: March 5, 2024",
          ""}

\* the sequences of at most n filler lines
RECURSIVE FillerSeqs(_)
FillerSeqs(n) ==
  IF n = 0 THEN {<<>>}
  ELSE FillerSeqs(n - 1) \cup {Append(f, l) : f \in {g \in FillerSeqs(n - 1) : Len(g) = n - 1}, l \in FillerLines}

PlantedText(fill, anchor, name, stop, tail) ==
  Join(fill \o <<anchor, name, stop>> \o (IF tail = "" THEN <<>> ELSE <<tail>>), "\n")

\* the text of the specification's scenario
ScenarioText == PlantedText(<<>>, "AWARDED TO", "Jane A. Doe", "HAS PASSED ALL COURSE WORK IN", SpecTail)

\* texts that hold only some sections, or none
PartialTexts == {"", "  \n\t ", "Stray paragraph about nothing in particular.",
                 "Total Training Hours: 8", "Participant: Ann Lee",
                 "-5 hours", "N/A hours", "Total Hours -5", "Total Hours: -5",
                 "LOG NUMBER 12 EMS-202-S025-2025", "catalog number 5 EMS-202-S025-2025",
                 "Relog Number 7, has passed all examinations", "Date: 13/45/2024",
                 "Course ID: FF-101 Log No. 7731", "Catalog Number 5512",
                 "AWARDED TO\nx\ny\nz\nJohn Smith", "AWARDED TO\nx\ny\nJohn Smith",
                 "AWARDED TO\ncourse work\nJohn Smith\nhas passed all examinations",
                 "COMPLETED ALL COURSE WORK IN\n \n(5 hours)",
                 "Course Title: Fire Safety on 1/5/2024"}

\* values that are no strings
NonStrings == {JsOther("undefined"), JsOther("null"), JsOther("number"), JsOther("object")}

InitParse ==
  /\ extracted = NotRun
  /\ \/ \E fill \in FillerSeqs(MaxFillerLines), anchor \in AnchorLines, name \in NameLines,
          stop \in StopLines, tail \in Tails :
          /\ rawText = JsString(PlantedText(fill, anchor, name, stop, tail))
          /\ planted = [anchor |-> anchor, name |-> name, stop |-> stop,
                        first |-> \A k \in 1..Len(fill) : fill[k] # AnchorFiller]
     \/ /\ rawText \in {JsString(t) : t \in PartialTexts} \cup NonStrings
        /\ planted = NoPlant
  /\ IdleButParse

\* a call parseCertificateFields(rawText)
Parse ==
  /\ extracted = NotRun
  /\ extracted' = parseCertificateFields(rawText)
  /\ UNCHANGED <<rawText, planted, notParse>>

NextParse == Parse

SpecParse == InitParse /\ [][NextParse]_vars

(***************************************************************************)
(* Claims about the field extractor (SpecParse).                           *)
(***************************************************************************)
Parsed == extracted # NotRun

\* equal modulo whitespace and case normalization
SameName(a, b) ==
  a # Null /\ b # Null
    /\ ToLowerCase(normalizeWhitespace(a)) = ToLowerCase(normalizeWhitespace(b))

\* a name of at least two words, written with letters, apostrophes, periods,
\* commas, hyphens and spaces only, that does not end in a period, comma or
\* hyphen and holds no stop phrase
IsPlainName(name) ==
  /\ \A i \in 1..Len(name) : CharAt(name, i) \in NameChars
  /\ Cardinality({i \in 1..Len(name) :
                    CharAt(name, i) # " " /\ (i = 1 \/ CharAt(name, i - 1) = " ")}) >= 2
  /\ CharAt(name, Len(name)) \notin {".", ",", "-", " "}
  /\ ~RxTestI(RxNameStop, name)
  /\ ~RxTestI(RxNameTail, name)

\* C1 as stated: whenever an anchor line is followed by a name line and a
\* stop line, the recipient name returned is that name (modulo whitespace
\* and case).
C1_AnyPlantedNameRecovered ==
  (Parsed /\ planted # NoPlant) => SameName(extracted.recipientName, planted.name)

\* a first anchor line followed by a plain name was parsed and the name came
\* back with its whitespace normalized
C1_Witness ==
  /\ Parsed
  /\ planted.first
  /\ planted.name = "JOHN  SMITH"
  /\ planted.anchor = "This Certificate Awarded To"
  /\ extracted.recipientName = "JOHN SMITH"

\* C1 amended: when the anchor line is the first line of the text that holds
\* "awarded to" and the line after it is a plain name (IsPlainName), the
\* recipient name returned is that name, modulo whitespace and case.
C1_PlainNameRecovered ==
  (Parsed /\ planted # NoPlant /\ planted.first /\ IsPlainName(planted.name))
    => SameName(extracted.recipientName, planted.name)

\* C2 as stated: the scenario text yields recipient "Jane A. Doe", class
\* "Emergency Vehicle Operations", 12.0 hours and log number "EVOC-24-0091".
C2_ScenarioFields ==
  (Parsed /\ rawText = JsString(ScenarioText))
    => /\ extracted.recipientName = "Jane A. Doe"
       /\ extracted.trainingClassName = "Emergency Vehicle Operations"
       /\ extracted.hoursLogged = <<12000>>
       /\ extracted.logNumber = "EVOC-24-0091"

\* the scenario text was parsed and gave no class name
C2_Witness ==
  /\ Parsed
  /\ rawText = JsString(ScenarioText)
  /\ extracted.recipientName = "Jane A. Doe"
  /\ extracted.trainingClassName = Null

\* the scenario text with the stop line of the known template
TemplateScenarioText ==
  PlantedText(<<>>, "AWARDED TO", "Jane A. Doe",
              "HAS PASSED ALL EXAMINATIONS AND COMPLETED ALL COURSE WORK IN", SpecTail)

\* C2 amended: the scenario text yields recipient "Jane A. Doe", 12.0 hours
\* and log number "EVOC-24-0091" but no class name (null); with the stop line
\* "HAS PASSED ALL EXAMINATIONS AND COMPLETED ALL COURSE WORK IN" in place of
\* "HAS PASSED ALL COURSE WORK IN" the class name is "Emergency Vehicle
\* Operations" as well.
C2_ScenarioFieldsNoClass ==
  /\ (Parsed /\ rawText \in {JsString(ScenarioText), JsString(TemplateScenarioText)})
       => /\ extracted.recipientName = "Jane A. Doe"
          /\ extracted.hoursLogged = <<12000>>
          /\ extracted.logNumber = "EVOC-24-0091"
  /\ (Parsed /\ rawText = JsString(ScenarioText)) => extracted.trainingClassName = Null
  /\ (Parsed /\ rawText = JsString(TemplateScenarioText))
       => extracted.trainingClassName = "Emergency Vehicle Operations"

\* a string of white space only (the empty string included)
IsBlank(text) == \A i \in 1..Len(text) : CharAt(text, i) \in SpaceSet

\* every string field of the record is a text or null, never the empty string
NoEmptyField(r) ==
  /\ r.recipientName # ""
  /\ r.trainingClassName # ""
  /\ r.courseIdentifier # ""
  /\ r.logNumber # ""
  /\ r.courseDate # ""
  /\ r.courseDateText # ""

AllFieldsNull(r) ==
  /\ r.recipientName = Null
  /\ r.trainingClassName = Null
  /\ r.hoursLogged = <<>>
  /\ r.courseIdentifier = Null
  /\ r.logNumber = Null
  /\ r.courseDate = Null
  /\ r.courseDateText = Null

\* C10: parseCertificateFields never raises; a field that could not be
\* extracted is null (never an empty text); for a non-string, empty or
\* whitespace-only input every field is null and the template flag is false.
C10_NeverRaisesMissingIsNull ==
  Parsed => /\ ~extracted.threw
            /\ NoEmptyField(extracted)
            /\ (rawText.type # "string" \/ IsBlank(rawText.v))
                  => (AllFieldsNull(extracted) /\ ~extracted.isLikelyMfri)

\* the texts whose hours are written with a minus sign or without a number
SignedHoursTexts == {"-5 hours", "Total Hours -5", "Total Hours: -5"}

NonNumericHoursTexts == {"N/A hours"}

HoursIn(texts) == Parsed /\ rawText.type = "string" /\ rawText.v \in texts

\* C11 as stated: hoursLogged is absent or a number >= 0, and a text whose
\* hours are negative or not a number ('-5 hours', 'N/A hours') never
\* populates hoursLogged.
C11_SignedHoursNeverPopulate ==
  Parsed => /\ (extracted.hoursLogged = <<>> \/ extracted.hoursLogged[1] >= 0)
            /\ HoursIn(SignedHoursTexts \cup NonNumericHoursTexts)
                  => extracted.hoursLogged = <<>>

C11_Witness ==
  /\ HoursIn({"-5 hours"})
  /\ extracted.hoursLogged = <<5000>>

\* C11 amended: hoursLogged is absent or a number >= 0; hours without a
\* number leave it absent; the patterns capture the digits only, so the
\* digits behind a minus sign populate it with their positive value, unless
\* the minus sign follows a colon.
C11_HoursUnsigned ==
  Parsed => /\ (extracted.hoursLogged = <<>> \/ extracted.hoursLogged[1] >= 0)
            /\ HoursIn(NonNumericHoursTexts) => extracted.hoursLogged = <<>>
            /\ HoursIn({"-5 hours", "Total Hours -5"}) => extracted.hoursLogged = <<5000>>
            /\ HoursIn({"Total Hours: -5"}) => extracted.hoursLogged = <<>>

\* the compact text of the call, in lower case
CompactLower ==
  IF rawText.type = "string" THEN ToLowerCase(toSingleLine(NormalizeBreaks(rawText.v))) ELSE ""

\* position i of str lies beside a word boundary on its left (right)
EdgeBefore(str, i) == i = 1 \/ CharAt(str, i - 1) \notin WordSet

EdgeAfter(str, j) == j = Len(str) \/ CharAt(str, j + 1) \notin WordSet

\* the words of the phrase stand in str, as words
OccursAsWords(phrase, str) ==
  \E i \in 1..(Len(str) - Len(phrase) + 1) :
    /\ SubSeq(str, i, i + Len(phrase) - 1) = phrase
    /\ EdgeBefore(str, i) /\ EdgeAfter(str, i + Len(phrase) - 1)

AllIn(str, chars) == \A k \in 1..Len(str) : CharAt(str, k) \in chars

\* letters-digits-letters/digits-four digits, hyphen separated
IsStructuredCode(parts) ==
  /\ Len(parts) = 4
  /\ Len(parts[1]) \in 2..6 /\ AllIn(parts[1], LowerSet)
  /\ Len(parts[2]) \in 2..4 /\ AllIn(parts[2], DigitSet)
  /\ Len(parts[3]) \in 2..8 /\ AllIn(parts[3], LowerSet \cup DigitSet)
  /\ Len(parts[4]) = 4 /\ AllIn(parts[4], DigitSet)

\* a structured code stands in str, as a word
HoldsStructuredCode(str) ==
  \E i \in 1..Len(str) :
    /\ CharAt(str, i) \in LowerSet /\ EdgeBefore(str, i)
    /\ \E j \in (i + 12)..Min(Len(str), i + 24) :
         /\ CharAt(str, j) \in DigitSet /\ EdgeAfter(str, j)
         /\ IsStructuredCode(Split(SubSeq(str, i, j), "-"))

\* how many of the five markers the text holds
MarkersIn(str) ==
  Cardinality({p \in {"this certificate awarded to", "has passed all examinations",
                      "completed all course work in", "log number"} : OccursAsWords(p, str)})
    + (IF HoldsStructuredCode(str) THEN 1 ELSE 0)

\* C21: the template flag is true if and only if at least 2 of the 5 markers
\* (the phrases "this certificate awarded to", "has passed all examinations",
\* "completed all course work in", "log number" and a structured course id)
\* occur in the compact text, whichever fields were extracted.
C21_FlagIffTwoMarkers ==
  Parsed => (extracted.isLikelyMfri <=> MarkersIn(CompactLower) >= 2)

\* two markers and no field but the identifiers
C21_Witness ==
  /\ Parsed /\ rawText = JsString("LOG NUMBER 12 EMS-202-S025-2025")
  /\ extracted.isLikelyMfri
  /\ extracted.recipientName = Null /\ extracted.trainingClassName = Null

\* the compact text of the call
CompactText == IF rawText.type = "string" THEN toSingleLine(NormalizeBreaks(rawText.v)) ELSE ""

\* the texts the date patterns capture in the compact text, in pattern order
DateCaptures(compact) ==
  SelectSeq([k \in 1..Len(datePatterns) |-> MatchDate(datePatterns[k], compact)],
            LAMBDA g : ~Falsy(g))

\* a date pattern matches and no captured text is a date
DateUnparsed(compact) ==
  /\ DateCaptures(compact) # <<>>
  /\ \A k \in 1..Len(DateCaptures(compact)) : tryParseDate(DateCaptures(compact)[k]) = <<>>

\* C22: when a date pattern matches the text but the matched text cannot be
\* parsed as a date, parseCertificateFields returns the raw matched text in
\* courseDateText and leaves courseDate absent.
C22_UnparsedDateKeptAsText ==
  (Parsed /\ DateUnparsed(CompactText)) =>
    /\ extracted.courseDate = Null
    /\ extracted.courseDateText = Trim(DateCaptures(CompactText)[1])

\* the value that follows one of the label words and "id", "number", "no" or "#"
LabelledValue(words, compact) ==
  TrimOfMatch(MatchI(Cat(<<AnyOf(words), Star(RxSpace), RxIdLabel, Star(RxSpace),
                           Opt(RxColonDash), Star(RxSpace), RxIdGroup>>), compact))

CourseLabels == <<"course", "class", "program">>

LogLabels == <<"certificate", "log">>

\* the structured code of the text in upper case; the labelled value when the
\* text holds no structured code
CodeOrLabelled(labelled) ==
  IF HoldsStructuredCode(CompactLower)
    THEN UpperOfMatch(MatchI(RxMfriIdDirect, CompactText))
    ELSE labelled

\* C23 as stated: courseIdentifier is the structured code when one occurs,
\* otherwise the value labelled as a course/class/program id or number, and
\* otherwise absent; a text with only a 'log number' label yields none.
C23_IdentifierFromCodeOrCourseLabel ==
  Parsed => extracted.courseIdentifier = CodeOrLabelled(LabelledValue(CourseLabels, CompactText))

\* C23: courseIdentifier is the structured code when one occurs, otherwise
\* the value labelled as a course/class/program id or number, otherwise the
\* value labelled as a certificate/log id or number, and otherwise absent.
C23_IdentifierFromCodeOrAnyLabel ==
  Parsed => extracted.courseIdentifier =
              CodeOrLabelled(Keep(LabelledValue(CourseLabels, CompactText),
                                  LabelledValue(LogLabels, CompactText)))

\* only a log number label, and its value is the course identifier too
C23_Witness ==
  /\ Parsed /\ ~HoldsStructuredCode(CompactLower)
  /\ LabelledValue(CourseLabels, CompactText) = Null
  /\ OccursAsWords("log number", CompactLower)
  /\ extracted.logNumber = "EVOC-24-0091"
  /\ extracted.courseIdentifier = "EVOC-24-0091"

\* the lines of the call
ParsedLines == IF rawText.type = "string" THEN LinesOf(NormalizeBreaks(rawText.v)) ELSE <<>>

\* the words of a name, separated by spaces
WordCount(name) ==
  Cardinality({i \in 1..Len(name) : CharAt(name, i) # " " /\ (i = 1 \/ CharAt(name, i - 1) = " ")})

\* the first line that holds "awarded to"; 0 when there is none
AnchorAt(lines) ==
  IF \E i \in 1..Len(lines) : OccursAsWords("awarded to", ToLowerCase(lines[i]))
    THEN CHOOSE i \in 1..Len(lines) :
           /\ OccursAsWords("awarded to", ToLowerCase(lines[i]))
           /\ \A j \in 1..(i - 1) : ~OccursAsWords("awarded to", ToLowerCase(lines[j]))
    ELSE 0

HoldsStopPhrase(line) ==
  OccursAsWords("has passed", ToLowerCase(line)) \/ OccursAsWords("course work", ToLowerCase(line))

\* the lines the scan may take a name from: the three after the anchor line
\* a, up to the first one with a stop phrase
ScanWindow(lines, a) ==
  IF a = 0 THEN {}
  ELSE {i \in (a + 1)..Min(a + 3, Len(lines)) : \A j \in (a + 1)..i : ~HoldsStopPhrase(lines[j])}

\* the name the anchor-line scan gives is the name of a line of the window,
\* and it is the name returned
ScanWithinWindow(lines, a, scanned, returned) ==
  /\ scanned # Null =>
        /\ returned = scanned
        /\ \E i \in ScanWindow(lines, a) : cleanupName(lines[i]) = scanned
  /\ scanned = Null => \A i \in ScanWindow(lines, a) : cleanupName(lines[i]) = Null

\* C24: a recipientName that is not null has at least two words, whichever
\* of the three paths gave it; the anchor-line scan takes a name only from
\* one of the three lines after the anchor line and only from a line before
\* the first stop-phrase line.
C24_NameOfTwoWordsWithinWindow ==
  Parsed =>
    /\ extracted.recipientName # Null => WordCount(extracted.recipientName) >= 2
    /\ ScanWithinWindow(ParsedLines, AnchorAt(ParsedLines),
                        RecipientByLine(ParsedLines, FindLine(RxAwardLine, ParsedLines)),
                        extracted.recipientName)

\* the name stands on the fourth line after the anchor line: the scan gives
\* none, the compact text gives one of more than two words
C24_Witness ==
  /\ Parsed /\ rawText = JsString("AWARDED TO\nx\ny\nz\nJohn Smith")
  /\ RecipientByLine(ParsedLines, FindLine(RxAwardLine, ParsedLines)) = Null
  /\ extracted.recipientName = "x y z John Smith"

(***************************************************************************)
(* Text acquisition and the extraction endpoint.                           *)
(***************************************************************************)
validTypes == {"image/jpeg", "image/png", "application/pdf"}

\* the types of the uploads of the model; Null is a request without a file
UploadTypes == validTypes \cup {"text/plain", Null}

FileRequiredError == "Certificate file is required."

InvalidTypeError == "Invalid file type. Only JPG, PNG and PDF files are allowed."

UnreadableError == "Unable to read text from certificate. Try a clearer PDF/image."

LowConfidenceError == "Certificate format does not match a supported MFRI certificate. Please upload manually and fill in details."

\* a text shorter than this (white space normalized) sends a PDF to OCR
MinTextLayerLength == 80

\* a certificate of the known template
TemplateText == PlantedText(<<>>, "This Certificate Awarded To", "Jane A. Doe",
                            "HAS PASSED ALL EXAMINATIONS AND COMPLETED ALL COURSE WORK IN",
                            "Emergency Vehicle\nOperations\nEMS-202-S025-2025\n(12.5 Hours)")

\* the texts pdfParse and Tesseract.recognize may return
DocTexts == {"", " \n ", "Stray paragraph about nothing in particular.",
             "Course Title: Fire Safety\r\nParticipant: Ann Lee\r",
             "Participant: Ann Lee", "Course Title: Fire Safety",
             "LOG NUMBER 12 EMS-202-S025-2025", ScenarioText, TemplateText}

PassOutcomes == {ThrewOutcome} \cup {TextOutcome(t) : t \in DocTexts}

\* if (text) { textChunks.push(text) } after a library call; an exception of
\* the call is caught and leaves textChunks as it is
PushText(chunks, outcome) ==
  IF outcome.kind = "text" /\ outcome.text # "" THEN Append(chunks, outcome.text) ELSE chunks

\* OCR for images only
shouldTryOcr_ImagesOnly(mime, chunks) == SubSeq(mime, 1, 6) = "image/"

shouldTryOcr(mime, chunks) ==
  SubSeq(mime, 1, 6) = "image/" \/ Len(normalizeWhitespace(Join(chunks, " "))) < MinTextLayerLength

\* the first chunk alone
combinedText_FirstChunk(chunks) == IF chunks = <<>> THEN "" ELSE NormalizeBreaks(chunks[1])

combinedText(chunks) == NormalizeBreaks(Join(chunks, "\n"))

\* a refusal only when both names are missing
IsRefused_BothMissing(parsed) ==
  ~parsed.isLikelyMfri /\ Falsy(parsed.recipientName) /\ Falsy(parsed.trainingClassName)

\* the refusal test of the endpoint
IsRefused(parsed) ==
  ~parsed.isLikelyMfri /\ (Falsy(parsed.recipientName) \/ Falsy(parsed.trainingClassName))

\* the response to a text that was read
ResponseTo(parsed) ==
  IF IsRefused(parsed) THEN [status |-> 400, error |-> LowConfidenceError]
  ELSE [status |-> 200, error |-> Null]

InitExtract ==
  /\ ParseIdle
  /\ IdleButExtract
  /\ mimeType \in UploadTypes
  /\ extractPc = "upload"
  /\ textChunks = <<>>
  /\ pdfOutcome = NotRunOutcome
  /\ ocrOutcome = NotRunOutcome
  /\ response = NoResponse

\* multer's fileFilter and the !req.file / !file tests
ReceiveUpload ==
  /\ extractPc = "upload"
  /\ IF mimeType = Null
       THEN extractPc' = "done" /\ response' = [status |-> 400, error |-> FileRequiredError]
       ELSE IF mimeType \notin validTypes
         THEN extractPc' = "done" /\ response' = [status |-> 400, error |-> InvalidTypeError]
         ELSE extractPc' = (IF mimeType = "application/pdf" THEN "pdf" ELSE "ocr")
                /\ UNCHANGED response
  /\ UNCHANGED <<parseVars, notExtract, mimeType, textChunks, pdfOutcome, ocrOutcome>>

\* await pdfParse(buffer) inside try/catch
PdfPass ==
  /\ extractPc = "pdf"
  /\ \E outcome \in PassOutcomes :
       /\ pdfOutcome' = outcome
       /\ textChunks' = PushText(textChunks, outcome)
  /\ extractPc' = "ocr"
  /\ UNCHANGED <<parseVars, notExtract, mimeType, ocrOutcome, response>>

\* await Tesseract.recognize(buffer, 'eng') inside try/catch
OcrPass ==
  /\ extractPc = "ocr"
  /\ shouldTryOcr(mimeType, textChunks)
  /\ \E outcome \in PassOutcomes :
       /\ ocrOutcome' = outcome
       /\ textChunks' = PushText(textChunks, outcome)
  /\ extractPc' = "respond"
  /\ UNCHANGED <<parseVars, notExtract, mimeType, pdfOutcome, response>>

\* shouldTryOcr is false: the text layer is long enough
SkipOcr ==
  /\ extractPc = "ocr"
  /\ ~shouldTryOcr(mimeType, textChunks)
  /\ extractPc' = "respond"
  /\ UNCHANGED <<parseVars, notExtract, mimeType, textChunks, pdfOutcome, ocrOutcome, response>>

\* the rest of extractCertificateText and of the handler
Respond ==
  /\ extractPc = "respond"
  /\ extractPc' = "done"
  /\ IF normalizeWhitespace(combinedText(textChunks)) = ""
       THEN /\ response' = [status |-> 400, error |-> UnreadableError]
            /\ UNCHANGED <<rawText, extracted>>
       ELSE /\ rawText' = JsString(combinedText(textChunks))
            /\ extracted' = parseCertificateFields(JsString(combinedText(textChunks)))
            /\ response' = ResponseTo(parseCertificateFields(JsString(combinedText(textChunks))))
  /\ UNCHANGED <<planted, notExtract, mimeType, textChunks, pdfOutcome, ocrOutcome>>

NextExtract == ReceiveUpload \/ PdfPass \/ OcrPass \/ SkipOcr \/ Respond

SpecExtract == InitExtract /\ [][NextExtract]_vars

(***************************************************************************)
(* Claims about the extraction endpoint (SpecExtract).                     *)
(***************************************************************************)
\* the handler answered a request whose text was read and parsed
Answered == extractPc = "done" /\ extracted # NotRun

C7_Witness ==
  /\ extractPc = "done"
  /\ pdfOutcome = ThrewOutcome
  /\ ocrOutcome.kind = "text"
  /\ ~IsBlank(ocrOutcome.text)
  /\ response.error # UnreadableError
  /\ rawText = JsString(ocrOutcome.text)

\* C7: for a file that was accepted, the extraction fails as unreadable if
\* and only if the texts the passes returned are all empty or white space;
\* an exception of pdfParse or of the OCR engine is never the answer, so the
\* only errors are the unreadable and the low-confidence ones.
C7_UnreadableIffNoText ==
  (extractPc = "done" /\ mimeType \in validTypes) =>
    /\ (response.error = UnreadableError)
         <=> (IsBlank(pdfOutcome.text) /\ IsBlank(ocrOutcome.text))
    /\ response.error \in {Null, UnreadableError, LowConfidenceError}
    /\ (pdfOutcome = ThrewOutcome /\ ~IsBlank(ocrOutcome.text)) => extracted # NotRun
    /\ (ocrOutcome = ThrewOutcome /\ ~IsBlank(pdfOutcome.text)) => extracted # NotRun

(***************************************************************************)
(* SpecExtractLive: the endpoint with library calls that may never return. *)
(* The handler awaits pdfParse(buffer) and Tesseract.recognize(buffer)     *)
(* with no timer beside them, so a call whose promise never settles leaves *)
(* the request waiting (extractPc = "stalled").  Node runs every           *)
(* continuation whose promise has settled, which is the weak fairness of   *)
(* the handler's steps.  Every step of NextExtractLive changes extractPc,  *)
(* and one is enabled exactly at the positions "upload", "pdf", "ocr" and  *)
(* "respond", so the fairness is stated for the steps as extractPc shows   *)
(* them (HandlerStep).                                                     *)
(***************************************************************************)
StalledOutcome == [kind |-> "stalled", text |-> ""]

\* await pdfParse(buffer): the promise never settles
PdfStall ==
  /\ extractPc = "pdf"
  /\ pdfOutcome' = StalledOutcome
  /\ extractPc' = "stalled"
  /\ UNCHANGED <<parseVars, notExtract, mimeType, textChunks, ocrOutcome, response>>

\* await Tesseract.recognize(buffer, 'eng'): the promise never settles
OcrStall ==
  /\ extractPc = "ocr"
  /\ shouldTryOcr(mimeType, textChunks)
  /\ ocrOutcome' = StalledOutcome
  /\ extractPc' = "stalled"
  /\ UNCHANGED <<parseVars, notExtract, mimeType, textChunks, pdfOutcome, response>>

NextExtractLive == NextExtract \/ PdfStall \/ OcrStall

\* a step of the handler, as extractPc shows it
HandlerStep ==
  /\ extractPc \in {"upload", "pdf", "ocr", "respond"}
  /\ extractPc' \in {"pdf", "ocr", "respond", "done", "stalled"}

SpecExtractLive == InitExtract /\ [][NextExtractLive]_vars /\ WF_extractPc(HandlerStep)

\* C16: every extraction request is answered in the end, with a result or
\* with a failure; a pass that never returns is cut short by a timeout and
\* answered with a failure.
C16_EveryRequestAnswered == <>(extractPc = "done" /\ response # NoResponse)

\* the passes of extractCertificateText are over
PassesOver == extractPc \in {"respond", "done"} /\ mimeType \in validTypes

\* the text the PDF pass has yielded
PdfText == IF pdfOutcome.kind = "text" THEN pdfOutcome.text ELSE ""

\* what the passes have done when they are over
PassesAsSpecified ==
  /\ pdfOutcome # NotRunOutcome => mimeType = "application/pdf"
  /\ ocrOutcome # NotRunOutcome => extractPc \in {"respond", "done"}
  /\ PassesOver =>
       /\ (pdfOutcome # NotRunOutcome) <=> (mimeType = "application/pdf")
       /\ (ocrOutcome # NotRunOutcome)
            <=> (mimeType \in {"image/jpeg", "image/png"}
                   \/ Len(normalizeWhitespace(PdfText)) < MinTextLayerLength)
  /\ (extractPc = "done" /\ PdfText # "" /\ ocrOutcome.text # ""
        /\ response.error # UnreadableError)
       => /\ rawText = JsString(NormalizeBreaks(PdfText \o "\n" \o ocrOutcome.text))
          /\ RxTest(Cls({"\r"}), PdfText \o ocrOutcome.text)
                \/ rawText = JsString(PdfText \o "\n" \o ocrOutcome.text)

\* a step starts the PDF pass only from the upload, with no pass made, and
\* the OCR pass only once, after the PDF pass or in its place
PassStep ==
  /\ extractPc' # extractPc =>
       /\ extractPc' # "upload"
       /\ extractPc' = "pdf" => extractPc = "upload"
       /\ extractPc' = "ocr" => extractPc \in {"upload", "pdf"}
       /\ extractPc' = "respond" => extractPc = "ocr"
  /\ pdfOutcome' # pdfOutcome =>
       (extractPc = "pdf" /\ pdfOutcome = NotRunOutcome /\ ocrOutcome' = NotRunOutcome)
  /\ ocrOutcome' # ocrOutcome =>
       (extractPc = "ocr" /\ ocrOutcome = NotRunOutcome /\ pdfOutcome' = pdfOutcome)

\* C20: the PDF text-layer pass is made only for application/pdf and before
\* OCR; the OCR pass is made if and only if the type is an image type or the
\* whitespace-normalized text so far is shorter than 80 characters; each
\* pass is made at most once; and when both passes yield text the text that
\* extractCertificateText returns is the PDF text, a newline and the OCR text
\* (with the line breaks \r\n and \r of either text written as \n).
C20_PassOrder == []PassesAsSpecified /\ [][PassStep]_vars

\* a PDF with a short text layer, read by OCR as well
C20_Witness ==
  /\ extractPc = "done" /\ mimeType = "application/pdf"
  /\ pdfOutcome = TextOutcome("Participant: Ann Lee")
  /\ ocrOutcome = TextOutcome(TemplateText)
  /\ rawText = JsString("Participant: Ann Lee\n" \o TemplateText)
  /\ response.status = 200

(***************************************************************************)
(* Name matching: the page script's helpers and the server's user search.  *)
(* A user is a record [id, firstName, middleName, lastName, displayName,   *)
(* email].  Scores are counted in hundredths of a point: 70 is 7000.       *)
(***************************************************************************)
\* the normalization without the final trim()
normalizeForMatch_Untrimmed(value, keepNumbers) ==
  ReplaceRuns(ReplaceRuns(ToLowerCase(OrEmpty(value)),
                          NotCls(IF keepNumbers THEN LowerSet \cup DigitSet ELSE LowerSet),
                          " "),
              RxSpace, " ")

\* normalizeForMatch(value, { keepNumbers })
normalizeForMatch(value, keepNumbers) ==
  Trim(ReplaceRuns(ReplaceRuns(ToLowerCase(OrEmpty(value)),
                               NotCls(IF keepNumbers THEN LowerSet \cup DigitSet ELSE LowerSet),
                               " "),
                   RxSpace, " "))

\* str.split(' ').filter(Boolean)
Words(str) == FilterBoolean(Split(str, " "))

\* str.charAt(0)
Initial(str) == IF str = "" THEN "" ELSE CharAt(str, 1)

\* the candidateValues of getUserNameVariantSet
\* the candidateValues without the display name
candidateValues_NoDisplay(first, middle, last, display) ==
  {first \o " " \o last,
   first \o " " \o middle \o " " \o last,
   first \o " " \o Initial(middle) \o " " \o last,
   Initial(first) \o " " \o last,
   last \o ", " \o first \o " " \o middle}

candidateValues(first, middle, last, display) ==
  {first \o " " \o last,
   first \o " " \o middle \o " " \o last,
   first \o " " \o Initial(middle) \o " " \o last,
   Initial(first) \o " " \o last,
   last \o ", " \o first \o " " \o middle,
   display}

getUserNameVariantSet(user) ==
  {normalizeForMatch(value, FALSE) :
     value \in candidateValues(OrEmpty(user.firstName), OrEmpty(user.middleName),
                               OrEmpty(user.lastName), OrEmpty(user.displayName))} \ {""}

\* the record parseNameParts builds from the normalized name and its words
NameParts(normalized, parts) ==
  [normalized |-> normalized,
   first  |-> IF parts = <<>> THEN "" ELSE parts[1],
   last   |-> IF Len(parts) > 1 THEN parts[Len(parts)] ELSE "",
   middle |-> IF Len(parts) > 2 THEN SubSeq(parts, 2, Len(parts) - 1) ELSE <<>>]

\* the parts of the name as it was typed
parseNameParts_Raw(nameValue) == NameParts(OrEmpty(nameValue), Words(OrEmpty(nameValue)))

parseNameParts(nameValue) ==
  NameParts(normalizeForMatch(nameValue, FALSE), Words(normalizeForMatch(nameValue, FALSE)))

\* String.prototype.includes
Includes(str, part) == \E i \in 0..(Len(str) - Len(part)) : SubSeq(str, i + 1, i + Len(part)) = part

\* searchWords.filter((word) => variantWords.includes(word)).length
Overlap(searchWords, variantWords) ==
  Cardinality({k \in 1..Len(searchWords) :
                 \E j \in 1..Len(variantWords) : variantWords[j] = searchWords[k]})

\* (overlap / searchWords.length) * points, in hundredths
OverlapScore(searchWords, variant, points) ==
  IF searchWords = <<>> THEN 0
  ELSE (Overlap(searchWords, Words(variant)) * points * 100) \div Len(searchWords)

\* Math.max(...scores) of the variants' overlap scores; 0 without variants
BestVariant(normalized, variants, points) ==
  IF variants = {} THEN 0
  ELSE CHOOSE best \in {OverlapScore(Words(normalized), v, points) : v \in variants} :
         \A v \in variants : OverlapScore(Words(normalized), v, points) <= best

\* the sum without the credit for the middle names
BaseScore_NoMiddle(search, userFirst, userLast, userDisplay) ==
  (IF search.first # "" /\ userFirst # "" /\ search.first = userFirst THEN 45 * 100 ELSE 0)
  + (IF search.last # "" /\ userLast # "" /\ search.last = userLast THEN 45 * 100 ELSE 0)
  + (IF search.first # "" /\ search.last # ""
          /\ Includes(userDisplay, search.first \o " " \o search.last) THEN 20 * 100 ELSE 0)

\* the score scoreCandidateUser has added up before the variant overlap
BaseScore(search, userFirst, userLast, userDisplay) ==
  (IF search.first # "" /\ userFirst # "" /\ search.first = userFirst THEN 45 * 100 ELSE 0)
  + (IF search.last # "" /\ userLast # "" /\ search.last = userLast THEN 45 * 100 ELSE 0)
  + (IF search.first # "" /\ search.last # ""
          /\ Includes(userDisplay, search.first \o " " \o search.last) THEN 20 * 100 ELSE 0)
  + (IF search.middle # <<>> /\ Includes(userDisplay, Join(search.middle, " ")) THEN 5 * 100 ELSE 0)

Max(a, b) == IF a > b THEN a ELSE b

\* the score below which scoreCandidateUser looks at the variant overlap, and
\* findPossibleUsersByName drops a candidate
PossibleThreshold == 60

\* the overlap step without the final Math.min(100, score)
OverlapStep_Uncapped(search, variants, score) ==
  IF score < PossibleThreshold * 100 /\ search.normalized # ""
    THEN Max(score, BestVariant(search.normalized, variants, 70))
    ELSE score

\* the overlap step and the final Math.min(100, score)
OverlapStep(search, variants, score) ==
  Min(100 * 100,
      IF score < PossibleThreshold * 100 /\ search.normalized # ""
        THEN Max(score, BestVariant(search.normalized, variants, 70))
        ELSE score)

\* scoreCandidateUser from the point where search and variants are known
ScoreOf(search, user, variants) ==
  IF search.normalized # "" /\ search.normalized \in variants THEN 100 * 100
  ELSE OverlapStep(search, variants,
                   BaseScore(search, normalizeForMatch(user.firstName, FALSE),
                             normalizeForMatch(user.lastName, FALSE),
                             normalizeForMatch(user.displayName, FALSE)))

scoreCandidateUser(searchName, user) ==
  ScoreOf(parseNameParts(searchName), user, getUserNameVariantSet(user))

(***************************************************************************)
(* GET /training/users/search.  AllUsers lists the users the database may  *)
(* hold in the order of their display names, so the users of a directory   *)
(* taken in the order of their positions are sorted by displayName.        *)
(***************************************************************************)
User(id, first, middle, last, display) ==
  [id |-> id, firstName |-> first, middleName |-> middle, lastName |-> last,
   displayName |-> display, email |-> id \o "@example.org"]

AllUsers ==
  << User("u01", "John", "", "Smith", "Dr. John Smith"),
     User("u02", "Joann", "Marie", "De Silva", "Joann Marie De Silva"),
     User("u03", "John", "A", "Smith", "John A Smith"),
     User("u04", "John", "B", "Smith", "John B Smith"),
     User("u05", "John", "", "Smith", "John Smith"),
     User("u06", "John", "", "Smith-Jones", "John Smith-Jones"),
     User("u07", "John", "", "Smithson", "John Smithson"),
     User("u08", "Johnny", "", "Smith", "Johnny Smith"),
     User("u09", "Robert", "Xavier", "Jones", "Robert X Jones"),
     User("u10", "Robert", "", "Jones", "Robert X Jones Jr"),
     User("u11", "Smith", "", "John", "Smith John") >>

\* the user with the given id
UserOf(id) == AllUsers[CHOOSE k \in 1..Len(AllUsers) : AllUsers[k].id = id]

\* the $or of case-insensitive regular expressions over the name fields
MatchesQuery(user, query) ==
  \E field \in {user.displayName, user.email, user.firstName, user.lastName, user.middleName} :
    field # "" /\ Includes(ToLowerCase(field), ToLowerCase(query))

\* .limit(10)
SearchLimit == 10

\* the first n users of a list
Limit(users, n) == SubSeq(users, 1, Min(n, Len(users)))

\* the users of dir whose position is k or more, in order, that match query
RECURSIVE FindUsers(_, _, _)
FindUsers(dir, query, k) ==
  IF k > Len(AllUsers) THEN <<>>
  ELSE (IF k \in dir /\ MatchesQuery(AllUsers[k], query) THEN <<AllUsers[k]>> ELSE <<>>)
         \o FindUsers(dir, query, k + 1)

\* the JSON array the search endpoint answers a query with
SearchUsers(dir, q) ==
  IF Trim(q) = "" THEN <<>> ELSE Limit(FindUsers(dir, Trim(q), 1), SearchLimit)

(***************************************************************************)
(* findUserByName.  bestMatch is kept as the id of the user.               *)
(***************************************************************************)
\* the score from which findUserByName returns its best match
AutoSelectThreshold == 70

\* let bestMatch = null; let highestScore = 0;
NoBest == [bestMatch |-> Null, highestScore |-> 0]

Best(user, score) == [bestMatch |-> user.id, highestScore |-> score]

\* if (score > highestScore) { highestScore = score; bestMatch = user; }
Improve(acc, user, score) == IF score > acc.highestScore THEN Best(user, score) ELSE acc

\* the callback of users.forEach for one user
VisitUser(acc, user, nameString_, searchParts, userVariants) ==
  IF /\ searchParts.first # "" /\ searchParts.last # ""
     /\ normalizeForMatch(user.firstName, FALSE) = searchParts.first
     /\ normalizeForMatch(user.lastName, FALSE) = searchParts.last
    THEN Best(user, 100 * 100)
  ELSE IF searchParts.normalized \in userVariants THEN Best(user, 100 * 100)
  ELSE Improve(Improve(acc, user, scoreCandidateUser(nameString_, user)),
               user, BestVariant(searchParts.normalized, userVariants, 100))

\* users.forEach from the k-th user on
RECURSIVE VisitUsers(_, _, _, _, _)
VisitUsers(acc, users, k, nameString_, searchParts) ==
  IF k > Len(users) THEN acc
  ELSE VisitUsers(VisitUser(acc, users[k], nameString_, searchParts,
                            getUserNameVariantSet(users[k])),
                  users, k + 1, nameString_, searchParts)

\* return highestScore >= 70 ? bestMatch : null
Decide(acc) == IF acc.highestScore >= AutoSelectThreshold * 100 THEN acc.bestMatch ELSE Null

\* findUserByName given the users the search answered with; ok is false when
\* the response is not ok or the request throws
findUserByName(nameString_, users, ok) ==
  IF nameString_ = "" \/ ~ok \/ users = <<>> THEN Null
  ELSE Decide(VisitUsers(NoBest, users, 1, nameString_, parseNameParts(nameString_)))

(***************************************************************************)
(* findPossibleUsersByName.  An entry is [user |-> id, score |-> score].   *)
(***************************************************************************)
\* .filter((value, index, arr) => value && arr.indexOf(value) === index)
RECURSIVE FirstOccurrences(_, _)
FirstOccurrences(arr, k) ==
  IF k > Len(arr) THEN <<>>
  ELSE (IF arr[k] # "" /\ \A j \in 1..(k - 1) : arr[j] # arr[k] THEN <<arr[k]>> ELSE <<>>)
         \o FirstOccurrences(arr, k + 1)

\* the queries findPossibleUsersByName sends
Queries(nameString_, search) ==
  FirstOccurrences(<<nameString_, Trim(search.first \o " " \o search.last),
                     search.last, search.first>>, 1)

\* candidateMap.set of the users of one response: a new id is added at the end
RECURSIVE SetCandidates(_, _, _)
SetCandidates(ids, users, k) ==
  IF k > Len(users) THEN ids
  ELSE SetCandidates(IF \E j \in 1..Len(ids) : ids[j] = users[k].id
                       THEN ids ELSE Append(ids, users[k].id),
                     users, k + 1)

\* the loop over the queries from the k-th on; the queries in failed get no
\* usable response
RECURSIVE CollectCandidates(_, _, _, _, _)
CollectCandidates(ids, dir, queries, k, failed) ==
  IF k > Len(queries) THEN ids
  ELSE CollectCandidates(IF k \in failed THEN ids
                           ELSE SetCandidates(ids, SearchUsers(dir, queries[k]), 1),
                         dir, queries, k + 1, failed)

\* .map((user) => ({ user, score: scoreCandidateUser(nameString, user) }))
ScoreEntries(ids, nameString_) ==
  [k \in 1..Len(ids) |-> [user |-> ids[k], score |-> scoreCandidateUser(nameString_, UserOf(ids[k]))]]

\* .filter((entry) => entry.score >= 60)
RECURSIVE FilterEntries(_, _)
FilterEntries(entries, k) ==
  IF k > Len(entries) THEN <<>>
  ELSE (IF entries[k].score >= PossibleThreshold * 100 THEN <<entries[k]>> ELSE <<>>)
         \o FilterEntries(entries, k + 1)

\* the place of an entry in a sorted list: behind the entries that score as
\* much or more
InsertEntry(sorted, entry, n) ==
  SubSeq(sorted, 1, n) \o <<entry>> \o SubSeq(sorted, n + 1, Len(sorted))

\* .sort((a, b) => b.score - a.score) of the first k entries; the sort is stable
SortByScore_Unsorted(entries, k) == SubSeq(entries, 1, k)

RECURSIVE SortEntries(_, _)
SortEntries(entries, k) ==
  IF k = 0 THEN <<>>
  ELSE InsertEntry(SortEntries(entries, k - 1), entries[k],
                   Cardinality({j \in 1..(k - 1) : entries[j].score >= entries[k].score}))

SortByScore(entries, k) == SortEntries(entries, k)

\* .slice(0, 6)
MaxPossibleUsers == 6

TopEntries(entries) == SubSeq(entries, 1, Min(MaxPossibleUsers, Len(entries)))

\* the chain behind Array.from(candidateMap.values())
RankEntries(entries) == TopEntries(SortByScore(entries, Len(entries)))

RankCandidates(ids, nameString_) == RankEntries(FilterEntries(ScoreEntries(ids, nameString_), 1))

PossibleUsersOf(nameString_, search, dir, failed) ==
  IF search.normalized = "" THEN <<>>
  ELSE RankCandidates(CollectCandidates(<<>>, dir, Queries(nameString_, search), 1, failed),
                      nameString_)

findPossibleUsersByName(nameString_, dir, failed) ==
  PossibleUsersOf(nameString_, parseNameParts(nameString_), dir, failed)

(***************************************************************************)
(* The two lookups over a directory of users.                              *)
(***************************************************************************)
\* the number of users of AllUsers a directory may lack
MaxAbsent == 1

Directories ==
  {dir \in SUBSET (1..Len(AllUsers)) : Cardinality((1..Len(AllUsers)) \ dir) <= MaxAbsent}

\* the recipient names looked up
SearchNames ==
  {"John Smith", "Ann Marie De Silva", "Robert X Jones", "Smith", "Mary Major", ""}

InitMatch ==
  /\ directory \in Directories
  /\ nameString \in SearchNames
  /\ searched = {}
  /\ bestMatch = Null
  /\ possibleUsers = <<>>
  /\ IdleButMatch

FindUserByName ==
  /\ "findUserByName" \notin searched
  /\ \E ok \in BOOLEAN :
       bestMatch' = findUserByName(nameString, SearchUsers(directory, nameString), ok)
  /\ searched' = searched \cup {"findUserByName"}
  /\ UNCHANGED <<directory, nameString, possibleUsers, notMatch>>

FindPossibleUsersByName ==
  /\ "findPossibleUsersByName" \notin searched
  /\ \E failed \in SUBSET (1..Len(Queries(nameString, parseNameParts(nameString)))) :
       possibleUsers' = findPossibleUsersByName(nameString, directory, failed)
  /\ searched' = searched \cup {"findPossibleUsersByName"}
  /\ UNCHANGED <<directory, nameString, bestMatch, notMatch>>

NextMatch == FindUserByName \/ FindPossibleUsersByName

SpecMatch == InitMatch /\ [][NextMatch]_vars

\* the users findUserByName gets from the search
Pool == SearchUsers(directory, nameString)

Returned == "findUserByName" \in searched /\ bestMatch # Null

\* C3: findUserByName returns a user only if scoreCandidateUser gives the
\* user at least 70 for the name; otherwise it returns null
C3_ReturnedScoresSeventy ==
  Returned => scoreCandidateUser(nameString, UserOf(bestMatch)) >= AutoSelectThreshold * 100

\* C5: the user findUserByName returns has the highest scoreCandidateUser
\* score of the users the search answered with
C5_ReturnedIsTopScorer ==
  Returned =>
    \A k \in 1..Len(Pool) :
      scoreCandidateUser(nameString, Pool[k])
        <= scoreCandidateUser(nameString, UserOf(bestMatch))

Listed == "findPossibleUsersByName" \in searched

\* a lookup whose candidates were found by several queries, came unsorted and
\* were more than the list holds
C4_Witness ==
  /\ Listed
  /\ Len(possibleUsers) = MaxPossibleUsers
  /\ possibleUsers[1].score > possibleUsers[MaxPossibleUsers].score
  /\ \E k \in directory :
       /\ scoreCandidateUser(nameString, AllUsers[k]) >= PossibleThreshold * 100
       /\ \A j \in 1..Len(possibleUsers) : possibleUsers[j].user # AllUsers[k].id
  /\ \E j \in 1..MaxPossibleUsers :
       /\ MatchesQuery(UserOf(possibleUsers[j].user), nameString)
       /\ MatchesQuery(UserOf(possibleUsers[j].user), parseNameParts(nameString).last)

\* C4: findPossibleUsersByName returns at most 6 entries, each of a different
\* user, each with the user's scoreCandidateUser score, which is 60 or more,
\* in an order in which the score never rises
C4_PossibleUsersRanked ==
  Listed =>
    /\ Len(possibleUsers) <= MaxPossibleUsers
    /\ \A j \in 1..Len(possibleUsers) :
         /\ possibleUsers[j].score = scoreCandidateUser(nameString, UserOf(possibleUsers[j].user))
         /\ possibleUsers[j].score >= PossibleThreshold * 100
         /\ \A i \in 1..(j - 1) :
              /\ possibleUsers[i].score >= possibleUsers[j].score
              /\ possibleUsers[i].user # possibleUsers[j].user

(***************************************************************************)
(* SpecScore: normalizeForMatch, getUserNameVariantSet and                 *)
(* scoreCandidateUser applied to the names and users below.                *)
(***************************************************************************)
ScoreNames == {"JOHN SMITH", "john smith", " John  Smith.", "Ann Marie De Silva",
               "John Q Smith", "Robert X Jones", "R2-D2 Jones\t3rd", "", "123",
               "O'Brien-Smith,\nPat "}

ScoreUsers == {UserOf("u02"), UserOf("u05"), UserOf("u08"), UserOf("u09"), UserOf("u10"),
               User("u12", "", "", "", "123"), User("u13", Null, Null, Null, "Smith, John")}

\* normalizeForMatch is applied to a name and to its own results this often
MaxNormalizations == 2

\* the strings of at most MaxShortLen characters of ShortChars
MaxShortLen == 3

ShortChars == {"A", "b", "3", " ", "-", "\t"}

RECURSIVE ShortStrings(_)
ShortStrings(n) ==
  IF n = 0 THEN {""}
  ELSE ShortStrings(n - 1) \cup {s \o c : s \in ShortStrings(n - 1), c \in ShortChars}

InitScore ==
  /\ \/ scQuery \in ScoreNames /\ scOther \in ScoreNames /\ scUser \in ScoreUsers
     \/ /\ scQuery \in ShortStrings(MaxShortLen) \ ScoreNames
        /\ scOther = ToLowerCase(scQuery)
        /\ scUser = User("u14", "A", "B", "Ab", "A B Ab")
  /\ scScores = <<>> /\ scKeepNumbers = FALSE /\ scNormalized = <<>> /\ scVariants = <<>>
  /\ IdleButScore

\* scoreCandidateUser(scQuery, scUser) and scoreCandidateUser(scOther, scUser)
ScoreCandidates ==
  /\ scScores = <<>>
  /\ scScores' = <<scoreCandidateUser(scQuery, scUser), scoreCandidateUser(scOther, scUser)>>
  /\ UNCHANGED <<scQuery, scOther, scUser, scKeepNumbers, scNormalized, scVariants, notScore>>

\* normalizeForMatch(scQuery, keep), then normalizeForMatch of its result
NormalizeName(keep) ==
  /\ Len(scNormalized) < MaxNormalizations
  /\ scNormalized = <<>> \/ keep = scKeepNumbers
  /\ scKeepNumbers' = keep
  /\ scNormalized' =
       Append(scNormalized,
              normalizeForMatch(IF scNormalized = <<>> THEN scQuery
                                ELSE scNormalized[Len(scNormalized)], keep))
  /\ UNCHANGED <<scQuery, scOther, scUser, scScores, scVariants, notScore>>

\* getUserNameVariantSet(scUser)
CollectVariants ==
  /\ scVariants = <<>>
  /\ scVariants' = <<getUserNameVariantSet(scUser)>>
  /\ UNCHANGED <<scQuery, scOther, scUser, scScores, scKeepNumbers, scNormalized, notScore>>

NextScore ==
  \/ ScoreCandidates
  \/ \E keep \in BOOLEAN : NormalizeName(keep)
  \/ CollectVariants

SpecScore == InitScore /\ [][NextScore]_vars

Scored == scScores # <<>>

\* the value of the variant overlap for scQuery and scUser
QueryOverlap ==
  BestVariant(normalizeForMatch(scQuery, FALSE), getUserNameVariantSet(scUser), 70)

\* C12 as stated: scoreCandidateUser returns an integer between 0 and 100.
C12_ScoreIsInteger ==
  Scored => /\ scScores[1] \in 0..(100 * 100)
            /\ scScores[1] % 100 = 0

\* a score that Math.min(100, score) has cut down, and one with a fraction
C12_Witness ==
  /\ Scored
  /\ scQuery = "John Q Smith" /\ scUser = UserOf("u05") /\ scScores[1] = 100 * 100
  /\ scOther = "Ann Marie De Silva"

\* C12 amended: scoreCandidateUser returns a number between 0 and 100; the
\* number is an integer unless it is the variant overlap, matched words / words
\* of the name * 70, which need not be one (3 of 4 words give 52.5).
C12_ScoreInRange ==
  Scored => /\ scScores[1] \in 0..(100 * 100)
            /\ scScores[1] % 100 # 0 => scScores[1] = QueryOverlap
            /\ (scQuery = "Ann Marie De Silva" /\ scUser = UserOf("u02")) => scScores[1] = 5250

SameNormalized == normalizeForMatch(scQuery, FALSE) = normalizeForMatch(scOther, FALSE)

\* C13: scoreCandidateUser depends on the name only through its normalized
\* form: two names with the same normalized form (names that differ in
\* capitals, punctuation or spacing) have the same score for every user.
C13_ScoreOfNormalizedName ==
  (Scored /\ SameNormalized) => scScores[1] = scScores[2]

C13_Witness ==
  /\ Scored
  /\ scQuery = "JOHN SMITH" /\ scOther = " John  Smith." /\ SameNormalized
  /\ scUser.id = "u13"
  /\ scScores[1] = scScores[2] /\ scScores[1] = 70 * 100

\* words of the characters in kept, separated by single spaces, with no
\* space in front or behind
WordsOf(kept, str) ==
  /\ \A i \in 1..Len(str) : CharAt(str, i) \in kept \cup {" "}
  /\ str # "" => (CharAt(str, 1) # " " /\ CharAt(str, Len(str)) # " ")
  /\ \A i \in 1..(Len(str) - 1) : ~(CharAt(str, i) = " " /\ CharAt(str, i + 1) = " ")

\* C14: normalizeForMatch is idempotent for both settings of keepNumbers,
\* and its result holds only words of a-z (or a-z and 0-9) separated by
\* single spaces, with no space in front or behind.
C14_NormalizeIdempotent ==
  /\ \A k \in 1..Len(scNormalized) :
       WordsOf(IF scKeepNumbers THEN LowerSet \cup DigitSet ELSE LowerSet, scNormalized[k])
  /\ \A k \in 2..Len(scNormalized) : scNormalized[k] = scNormalized[1]

C14_Witness ==
  /\ scQuery = "R2-D2 Jones\t3rd" /\ scKeepNumbers
  /\ Len(scNormalized) = 2
  /\ scNormalized[1] = "r2 d2 jones 3rd" /\ scNormalized[2] = "r2 d2 jones 3rd"

Collected == scVariants # <<>>

DisplayOf(user) == normalizeForMatch(user.displayName, FALSE)

\* C15 as stated: the variant set of a user whose displayName is not empty
\* contains the normalized displayName.
C15_VariantsHoldDisplayName ==
  (Collected /\ ~Falsy(scUser.displayName)) => DisplayOf(scUser) \in scVariants[1]

\* a display name that no first and last name would give
C15_Witness ==
  /\ Collected /\ scUser.id = "u13"
  /\ "smith john" \in scVariants[1]

\* C15 amended: the variant set contains the normalized displayName when
\* that normalized form is not empty; a displayName without a letter ("123")
\* has the normalized form "", which filter(Boolean) keeps out of the set, as
\* it keeps out every empty variant.
C15_VariantsHoldNormalizedDisplayName ==
  Collected => /\ DisplayOf(scUser) # "" => DisplayOf(scUser) \in scVariants[1]
               /\ "" \notin scVariants[1]
               /\ scUser.id = "u12" => scVariants[1] = {}

(***************************************************************************)
(* The reference scoring, in hundredths of a point: tokens are the words   *)
(* of the normalized name, the first of them its first name, the last of   *)
(* two or more its last name, the ones between its middle names.           *)
(***************************************************************************)
Credit(points, earned) == IF earned THEN points * 100 ELSE 0

RefSum(tokens, userFirst, userLast, userDisplay) ==
  LET n == Len(tokens)
  IN  Credit(45, n >= 1 /\ userFirst # "" /\ tokens[1] = userFirst)
      + Credit(45, n >= 2 /\ userLast # "" /\ tokens[n] = userLast)
      + Credit(20, n >= 2 /\ Includes(userDisplay, tokens[1] \o " " \o tokens[n]))
      + Credit(5, n >= 3 /\ Includes(userDisplay, Join(SubSeq(tokens, 2, n - 1), " ")))

\* matched tokens / tokens * 70 for one variant
RefRatio(tokens, variantTokens) ==
  (Cardinality({k \in DOMAIN tokens : \E j \in DOMAIN variantTokens : variantTokens[j] = tokens[k]})
     * 70 * 100) \div Len(tokens)

RefOverlap(tokens, variantSet) ==
  IF tokens = <<>> \/ variantSet = {} THEN 0
  ELSE LET ratios == {RefRatio(tokens, Words(v)) : v \in variantSet}
       IN  CHOOSE r \in ratios : \A other \in ratios : other <= r

RefPick(sum, overlap) ==
  IF sum < 60 * 100 /\ overlap > sum THEN overlap ELSE Min(100 * 100, sum)

RefScore(normalized, variantSet, userFirst, userLast, userDisplay) ==
  IF normalized # "" /\ normalized \in variantSet THEN 100 * 100
  ELSE RefPick(RefSum(Words(normalized), userFirst, userLast, userDisplay),
               RefOverlap(Words(normalized), variantSet))

ReferenceScore(name, user) ==
  RefScore(normalizeForMatch(name, FALSE), getUserNameVariantSet(user),
           normalizeForMatch(user.firstName, FALSE), normalizeForMatch(user.lastName, FALSE),
           normalizeForMatch(user.displayName, FALSE))

\* C19: scoreCandidateUser equals the reference scoring: 100 for a name in
\* the variant set; otherwise +45 first name, +45 last name, +20 display name
\* holding "first last", +5 display name holding the middle names, at most
\* 100; a sum below 60 gives way to the best overlap ratio * 70 if higher.
C19_ScoreEqualsReference ==
  Scored => /\ scScores[1] = ReferenceScore(scQuery, scUser)
            /\ scScores[2] = ReferenceScore(scOther, scUser)

\* both name credits and the credit for the middle name
C19_Witness ==
  /\ Scored /\ scQuery = "Robert X Jones" /\ scUser = UserOf("u10")
  /\ scScores[1] = (45 + 45 + 5) * 100

(***************************************************************************)
(* The certificate manager page: auto-fill of the add form.  A status      *)
(* message is kept as the list of its parts, which the page joins with a   *)
(* bullet; hours are kept in thousandths, <<>> being no number.            *)
(***************************************************************************)
\* the options of the class select: [value, text]
Catalog ==
  << [value |-> "", text |-> "Select a class"],
     [value |-> "c1", text |-> "Emergency Vehicle Operations"],
     [value |-> "c2", text |-> "Hazardous Materials Operations"] >>

NoOption == [value |-> "", text |-> ""]

Abs(n) == IF n < 0 THEN -n ELSE n

\* the score of an option whose normalized text differs from the target
OptionScore(normalized, target) ==
  IF Includes(normalized, target) \/ Includes(target, normalized)
    THEN (85 - Abs(Len(normalized) - Len(target))) * 100
    ELSE OverlapScore(Words(target), normalized, 70)

\* the callback of candidates.forEach for one option
VisitOption(acc, option, normalized, target) ==
  IF normalized = "" THEN acc
  ELSE IF normalized = target THEN [bestOption |-> option, bestScore |-> 100 * 100]
  ELSE IF OptionScore(normalized, target) > acc.bestScore
    THEN [bestOption |-> option, bestScore |-> OptionScore(normalized, target)]
  ELSE acc

\* candidates.forEach from the k-th option on; options without value are
\* no candidates
RECURSIVE VisitOptions(_, _, _, _)
VisitOptions(acc, options, k, target) ==
  IF k > Len(options) THEN acc
  ELSE VisitOptions(IF options[k].value = "" THEN acc
                      ELSE VisitOption(acc, options[k],
                                       normalizeForMatch(options[k].text, TRUE), target),
                    options, k + 1, target)

\* the score from which an option is taken
MinClassScore == 45

\* an option is taken from 50 points on
BestOption_FromFifty(acc) == IF acc.bestScore >= 50 * 100 THEN acc.bestOption ELSE NoOption

BestOption(acc) == IF acc.bestScore >= MinClassScore * 100 THEN acc.bestOption ELSE NoOption

TargetOption(normalizedTarget, options) ==
  IF normalizedTarget = "" THEN NoOption
  ELSE BestOption(VisitOptions([bestOption |-> NoOption, bestScore |-> 0], options, 1,
                               normalizedTarget))

\* findTrainingClassOption; NoOption for null
findTrainingClassOption(name, options) ==
  IF Falsy(name) THEN NoOption ELSE TargetOption(normalizeForMatch(name, TRUE), options)

\* what applyAutofillResult has done so far
StartAutofill(form) ==
  [form |-> form, messages |-> <<>>, statusLevel |-> "success", courseIdentifierHandled |-> FALSE]

\* messages.push
Push(acc, message) == [acc EXCEPT !.messages = Append(@, message)]

\* setSuggestionVisibility with an empty message
clearClassSuggestion(form) == [form EXCEPT !.suggestion = "", !.createButton = FALSE]

\* shared is true for addAutofillContext itself and false for a copy of it,
\* whose pendingClassName and pendingHours are lost with the copy
showClassSuggestion(form, className, extractedHours, shared, canCreate) ==
  [form EXCEPT !.suggestion = "Class not found: " \o className \o ".",
               !.createButton = canCreate,
               !.pendingClassName = IF shared THEN className ELSE @,
               !.pendingHours = IF shared /\ extractedHours # <<>> THEN extractedHours ELSE @]

OptionLabel(option) == IF option.text # "" THEN option.text ELSE option.value

ClassMatched(acc, extracted_, match, shared, canCreate) ==
  IF match # NoOption
    THEN Push([acc EXCEPT !.form = clearClassSuggestion([@ EXCEPT !.trainingClass = match.value])],
              "Matched class: " \o OptionLabel(match))
    ELSE [Push(acc, "Suggested class: " \o extracted_.trainingClassName) EXCEPT
            !.statusLevel = "warning",
            !.form = showClassSuggestion(@, extracted_.trainingClassName,
                                         extracted_.hoursLogged, shared, canCreate)]

ClassStep(acc, extracted_, shared, canCreate) ==
  IF ~Falsy(extracted_.trainingClassName)
    THEN ClassMatched(acc, extracted_,
                      findTrainingClassOption(extracted_.trainingClassName, Catalog), shared,
                      canCreate)
    ELSE [acc EXCEPT !.form = clearClassSuggestion(@)]

\* toLocaleDateString of an ISO date, as the en-US locale writes it in UTC
LocaleDate(iso) ==
  PadNumber(DigitsValue(SubSeq(iso, 6, 7)), 1) \o "/"
    \o PadNumber(DigitsValue(SubSeq(iso, 9, 10)), 1) \o "/" \o SubSeq(iso, 1, 4)

DateStep(acc, extracted_) ==
  IF ~Falsy(extracted_.courseDate)
    THEN Push([acc EXCEPT !.form.startDate = SubSeq(extracted_.courseDate, 1, 10),
                          !.form.endDate = SubSeq(extracted_.courseDate, 1, 10)],
              "Date set: " \o LocaleDate(extracted_.courseDate))
  ELSE IF ~Falsy(extracted_.courseDateText)
    THEN [Push(acc, "Suggested date: " \o extracted_.courseDateText) EXCEPT
            !.statusLevel = IF @ = "success" THEN "warning" ELSE @]
  ELSE acc

\* parseFloat(n.toFixed(1)), n in thousandths
ToFixed1(n) == IF n >= 0 THEN ((n + 50) \div 100) * 100 ELSE -(((50 - n) \div 100) * 100)

\* the decimal text of a number of tenths, given in thousandths
NumberText(n) ==
  (IF n < 0 THEN "-" ELSE "") \o PadNumber(Abs(n) \div 1000, 1)
    \o (IF Abs(n) % 1000 = 0 THEN "" ELSE "." \o PadNumber((Abs(n) % 1000) \div 100, 1))

HoursValue(n) == IF n % 1000 = 0 THEN n ELSE ToFixed1(n)

HoursStep(acc, extracted_) ==
  IF extracted_.hoursLogged # <<>>
    THEN Push([acc EXCEPT !.form.hours = <<HoursValue(extracted_.hoursLogged[1])>>],
              "Hours set: " \o NumberText(HoursValue(extracted_.hoursLogged[1])))
    ELSE acc

\* a suggested course number sets the level to info whatever it was
CourseStep_LevelLowered(acc, extracted_) ==
  IF acc.form.courseNumber # Null /\ ~Falsy(extracted_.courseIdentifier)
    THEN [Push([acc EXCEPT !.form.courseNumber = extracted_.courseIdentifier],
               "Course number set: " \o extracted_.courseIdentifier) EXCEPT
            !.courseIdentifierHandled = TRUE]
  ELSE IF ~Falsy(extracted_.courseIdentifier)
    THEN [Push(acc, "Suggested course number: " \o extracted_.courseIdentifier) EXCEPT
            !.statusLevel = "info",
            !.courseIdentifierHandled = TRUE]
  ELSE acc

CourseStep(acc, extracted_) ==
  IF acc.form.courseNumber # Null /\ ~Falsy(extracted_.courseIdentifier)
    THEN [Push([acc EXCEPT !.form.courseNumber = extracted_.courseIdentifier],
               "Course number set: " \o extracted_.courseIdentifier) EXCEPT
            !.courseIdentifierHandled = TRUE]
  ELSE IF ~Falsy(extracted_.courseIdentifier)
    THEN [Push(acc, "Suggested course number: " \o extracted_.courseIdentifier) EXCEPT
            !.statusLevel = IF @ = "success" THEN "info" ELSE @,
            !.courseIdentifierHandled = TRUE]
  ELSE acc

\* candidateNames of the recipient check
candidateNames(currentUserName, details) ==
  ({normalizeForMatch(currentUserName, FALSE)} \ {""}) \cup getUserNameVariantSet(details)

MismatchMessage(recipientName) ==
  "Detected recipient \"" \o recipientName \o "\" does not match the selected user."

\* a mismatch that leaves the level as it is
RecipientChecked_LevelKept(acc, recipientName, normalizedRecipient, names) ==
  IF normalizedRecipient # "" /\ normalizedRecipient \in names
    THEN Push(acc, "Detected recipient: " \o recipientName)
  ELSE IF normalizedRecipient # "" THEN Push(acc, MismatchMessage(recipientName))
  ELSE acc

RecipientChecked(acc, recipientName, normalizedRecipient, names) ==
  IF normalizedRecipient # "" /\ normalizedRecipient \in names
    THEN Push(acc, "Detected recipient: " \o recipientName)
  ELSE IF normalizedRecipient # ""
    THEN [Push(acc, MismatchMessage(recipientName)) EXCEPT !.statusLevel = "warning"]
  ELSE acc

RecipientStep(acc, extracted_, currentUserName, details) ==
  IF ~Falsy(extracted_.recipientName)
    THEN RecipientChecked(acc, extracted_.recipientName,
                          normalizeForMatch(extracted_.recipientName, FALSE),
                          candidateNames(currentUserName, details))
    ELSE acc

TailStep(acc, extracted_) ==
  IF ~acc.courseIdentifierHandled /\ ~Falsy(extracted_.courseIdentifier)
    THEN Push(acc, "Course ID: " \o extracted_.courseIdentifier)
  ELSE IF ~Falsy(extracted_.logNumber) THEN Push(acc, "Log number: " \o extracted_.logNumber)
  ELSE acc

NoFieldsMessage == "No recognizable fields were found."

\* the status applyAutofillResult sets at its end
StatusOf(acc) ==
  IF acc.messages = <<>> THEN [message |-> <<NoFieldsMessage>>, level |-> "warning"]
  ELSE [message |-> acc.messages, level |-> acc.statusLevel]

\* applyAutofillResult for an extracted object and a context with a status
\* element: the form and the status it leaves, as [form, messages,
\* statusLevel, courseIdentifierHandled]
applyAutofillResult(extracted_, form, currentUserName, details, shared, canCreate) ==
  TailStep(RecipientStep(CourseStep(HoursStep(DateStep(ClassStep(StartAutofill(form),
                                                                   extracted_, shared, canCreate),
                                                         extracted_),
                                                extracted_),
                                     extracted_),
                         extracted_, currentUserName, details),
           extracted_)

(***************************************************************************)
(* The certificate manager page: the presearch upload, the recipient       *)
(* modal and the selection of a user.  The answers of the server are those *)
(* of the endpoint modelled above for the text of the uploaded file.       *)
(***************************************************************************)
\* const { rawText, ...extracted } = parsed
Payload(parsed) ==
  [recipientName |-> parsed.recipientName, trainingClassName |-> parsed.trainingClassName,
   hoursLogged |-> parsed.hoursLogged, courseIdentifier |-> parsed.courseIdentifier,
   logNumber |-> parsed.logNumber, courseDate |-> parsed.courseDate,
   courseDateText |-> parsed.courseDateText, isLikelyMfri |-> parsed.isLikelyMfri]

Failure(error) == [success |-> FALSE, error |-> error, extracted |-> <<>>]

AnswerFor(parsed) ==
  IF IsRefused(parsed) THEN Failure(LowConfidenceError)
  ELSE [success |-> TRUE, error |-> Null, extracted |-> <<Payload(parsed)>>]

\* the JSON answer of POST /certificates/extract to a file with this text
AnswerTo(text) ==
  IF normalizeWhitespace(text) = "" THEN Failure(UnreadableError)
  ELSE AnswerFor(parseCertificateFields(JsString(text)))

Certificate(name, tail) ==
  PlantedText(<<>>, "This Certificate Awarded To", name,
              "HAS PASSED ALL EXAMINATIONS AND COMPLETED ALL COURSE WORK IN", tail)

\* the texts of the files the operator has at hand
PageTexts ==
  << Certificate("John Smith", "Emergency Vehicle\nOperations\nEMS-202-S025-2025\n(12.5 Hours)"),
     Certificate("Robert X Jones", "Rope Rescue\n(8 Hours)\nMarch 5, 2024"),
     Certificate("'' ''", "Rope Rescue"),
     "LOG NUMBER 12 EMS-202-S025-2025",
     " \n ",
     Certificate("John Smith", "Rope Rescue\n(8 Hours)"),
     "Participant: Ann Lee" >>

FileNames == <<"smith.pdf", "jones.pdf", "quotes.png", "lognumber.pdf", "blank.png", "smith.txt",
               "annlee.pdf">>

\* file.mimetype, which the browser derives from the name of the file
MimeOf(file) ==
  LET ext == SubSeq(file, Len(file) - 3, Len(file))
  IN  IF ext = ".pdf" THEN "application/pdf" ELSE IF ext = ".png" THEN "image/png" ELSE "text/plain"

PageFiles == {FileNames[k] : k \in 1..Len(FileNames)}

TextOf(file) == PageTexts[CHOOSE k \in 1..Len(FileNames) : FileNames[k] = file]

\* the value a table of pairs <<key, value>> holds for a key
Lookup(pairs, key) == (CHOOSE p \in pairs : p[1] = key)[2]

\* the answers of the server, tabulated by file
\* the JSON answer to an upload: multer's fileFilter, then the handler
AnswerToUpload(mime, text) ==
  IF mime \notin validTypes THEN Failure(InvalidTypeError) ELSE AnswerTo(text)

ServerAnswers == {<<file, AnswerToUpload(MimeOf(file), TextOf(file))>> : file \in PageFiles}

AnswerOf(file) == Lookup(ServerAnswers, file)

\* the users of the database of the page
PageDirectory == {k \in 1..Len(AllUsers) : AllUsers[k].id \in {"u07", "u08", "u09"}}

\* the user selected when the page loads; "" for none
InitialUsers == {"", "u08"}

\* the character U+2014, written with the characters at hand
EmDash == "--"

OrDash(v) == IF v = "" THEN EmDash ELSE v

DetailsOf(user) ==
  [displayName |-> user.displayName, email |-> user.email, firstName |-> user.firstName,
   middleName |-> user.middleName, lastName |-> user.lastName]

\* app.dataset.canCreateClass === 'true': the pages of the model are those
\* of an operator who may create classes
canCreateTrainingClass == TRUE

\* the text the status elements start with
DefaultStatus == NoStatus

Status(message, level) == [message |-> <<message>>, level |-> level]

\* the end of applyAutofillResult: the inputs written and setAutofillStatus
Commit(acc) == addForm' = acc.form /\ autofillStatus' = StatusOf(acc)

\* setSelectedUser; queued is queuedAutofillData: <<object>>, or <<>> for null
setSelectedUser(user, queued) ==
  /\ selectedUserId' = user.id
  /\ selectedUserName' = OrDash(user.displayName)
  /\ selectedUserDetails' = DetailsOf(user)
  /\ IF queued = <<>>
       THEN addForm' = clearClassSuggestion(addForm) /\ autofillStatus' = DefaultStatus
       ELSE Commit(applyAutofillResult(queued[1], clearClassSuggestion(addForm),
                                       Trim(OrDash(user.displayName)), DetailsOf(user), TRUE,
                                       canCreateTrainingClass))

selectMatchedRecipient(user, extracted_) ==
  /\ presearchStatus' = Status("Found: " \o user.displayName \o ". Loading profile...", "success")
  /\ setSelectedUser(user, <<extracted_>>)
  /\ presearchFile' = Null
  /\ timers' = timers + 1

\* the state a page starts in
InitPage ==
  /\ IdleButPage
  /\ directory = PageDirectory
  /\ nameString = "" /\ searched = {} /\ bestMatch = Null /\ possibleUsers = <<>>
  /\ selectedUserId \in InitialUsers
  /\ selectedUserDetails = IF selectedUserId = "" THEN NoUserDetails ELSE DetailsOf(UserOf(selectedUserId))
  /\ selectedUserName = IF selectedUserId = "" THEN "" ELSE OrDash(UserOf(selectedUserId).displayName)
  /\ addForm = EmptyForm
  /\ autofillStatus = DefaultStatus
  /\ presearchStatus = DefaultStatus
  /\ presearchProcessing = FALSE
  /\ presearchDisabled = FALSE
  /\ presearchFile = Null
  /\ recipientsModal = ModalHidden
  /\ pipelines = <<>>
  /\ timers = 0
  /\ autofillRequests = <<>>
  /\ autofillCalls = 0
  /\ addCertificateFile = Null

\* the recipient names of the answers of the server
PageNames ==
  {p[2].extracted[1].recipientName : p \in {q \in ServerAnswers : q[2].success}} \ {Null}

\* what findUserByName may return for a name over the directory of the page:
\* the search answers or fails
FoundUsers ==
  {<<name, {findUserByName(name, SearchUsers(PageDirectory, name), ok) : ok \in BOOLEAN}>> :
     name \in PageNames}

\* what findPossibleUsersByName may return: any of its searches may fail
PossibleLists ==
  {<<name, {findPossibleUsersByName(name, PageDirectory, failed) :
              failed \in SUBSET (1..Len(Queries(name, parseNameParts(name))))}>> :
     name \in PageNames}

\* how many times the operator starts a presearch upload
MaxUploads == 3

\* how many times the operator chooses a file in the add form
MaxAutofills == 2

Done == [pc |-> "done", file |-> Null, extracted |-> <<>>]

\* presearchProcessing = false; presearchUploadButton.disabled = false
Release == presearchProcessing' = FALSE /\ presearchDisabled' = FALSE

\* the operator acts on the page only while the modal does not cover it
PageFree == ~recipientsModal.shown

\* change of presearchCertificateInput
ChoosePresearchFile ==
  /\ PageFree
  /\ \E file \in PageFiles : presearchFile' = file
  /\ UNCHANGED <<selectedVars, addForm, autofillStatus, presearchStatus, presearchProcessing,
                 presearchDisabled, recipientsModal, pipelines, timers, autofillRequests,
                 autofillCalls, addCertificateFile,
                 notPage>>

\* click of presearchUploadButton, up to the first await
ClickUpload ==
  /\ PageFree
  /\ ~presearchDisabled
  /\ ~presearchProcessing
  /\ Len(pipelines) < MaxUploads
  /\ IF presearchFile = Null
       THEN /\ presearchStatus' = Status("Please select a certificate file first.", "warning")
            /\ UNCHANGED <<presearchProcessing, presearchDisabled, pipelines>>
       ELSE /\ presearchProcessing' = TRUE
            /\ presearchDisabled' = TRUE
            /\ presearchStatus' = Status("Reading certificate...", "info")
            /\ pipelines' = Append(pipelines, [pc |-> "extract", file |-> presearchFile,
                                               extracted |-> <<>>])
  /\ UNCHANGED <<selectedVars, addForm, autofillStatus, presearchFile, recipientsModal, timers,
                 autofillRequests, autofillCalls, addCertificateFile,
                 notPage>>

\* the handler after await extractCertificateData, for an answer of the server
AfterExtract(i, answer) ==
  IF ~answer.success
    THEN /\ presearchStatus' = Status(answer.error, "danger")
         /\ Release
         /\ pipelines' = [pipelines EXCEPT ![i] = Done]
  ELSE IF Falsy(answer.extracted[1].recipientName)
    THEN /\ presearchStatus' = Status("Could not identify the recipient on this certificate.", "warning")
         /\ Release
         /\ pipelines' = [pipelines EXCEPT ![i] = Done]
  ELSE /\ presearchStatus' = Status("Searching for: " \o answer.extracted[1].recipientName \o "...", "info")
       /\ pipelines' = [pipelines EXCEPT ![i] = [pc |-> "find", file |-> @.file,
                                                 extracted |-> answer.extracted]]
       /\ UNCHANGED <<presearchProcessing, presearchDisabled>>

ExtractAnswered ==
  /\ \E i \in 1..Len(pipelines) :
       /\ pipelines[i].pc = "extract"
       /\ AfterExtract(i, AnswerOf(pipelines[i].file))
  /\ UNCHANGED <<selectedVars, addForm, autofillStatus, presearchFile, recipientsModal, timers,
                 autofillRequests, autofillCalls, addCertificateFile,
                 notPage>>

\* the handler after await findUserByName
AfterFind(i, matchedUser, extracted_) ==
  IF matchedUser = Null
    THEN /\ pipelines' = [pipelines EXCEPT ![i].pc = "possible"]
         /\ UNCHANGED <<selectedVars, addForm, autofillStatus, presearchStatus, presearchFile,
                        timers>>
    ELSE /\ selectMatchedRecipient(UserOf(matchedUser), extracted_)
         /\ pipelines' = [pipelines EXCEPT ![i] = Done]

FindAnswered ==
  /\ \E i \in 1..Len(pipelines) :
       /\ pipelines[i].pc = "find"
       /\ \E matchedUser \in Lookup(FoundUsers, pipelines[i].extracted[1].recipientName) :
            AfterFind(i, matchedUser, pipelines[i].extracted[1])
  /\ UNCHANGED <<presearchProcessing, presearchDisabled, recipientsModal, autofillRequests,
                 autofillCalls, addCertificateFile,
                 notPage>>

\* showPossibleRecipientModal for a list that is not empty
showPossibleRecipientModal(detectedName, candidates, extracted_) ==
  [shown |-> TRUE, detectedName |-> detectedName, list |-> candidates, extracted |-> <<extracted_>>]

\* the handler after await findPossibleUsersByName
AfterPossible(detectedName, candidateMatches, extracted_) ==
  IF candidateMatches # <<>>
    THEN /\ presearchStatus' = Status("No exact match for \"" \o detectedName
                                        \o "\". Please choose a close match.", "warning")
         /\ recipientsModal' = showPossibleRecipientModal(detectedName, candidateMatches, extracted_)
    ELSE /\ presearchStatus' = Status("No matching user found for \"" \o detectedName \o "\".", "danger")
         /\ UNCHANGED recipientsModal

PossibleAnswered ==
  /\ \E i \in 1..Len(pipelines) :
       /\ pipelines[i].pc = "possible"
       /\ \E candidateMatches \in Lookup(PossibleLists, pipelines[i].extracted[1].recipientName) :
            AfterPossible(pipelines[i].extracted[1].recipientName, candidateMatches,
                          pipelines[i].extracted[1])
       /\ pipelines' = [pipelines EXCEPT ![i] = Done]
  /\ Release
  /\ UNCHANGED <<selectedVars, addForm, autofillStatus, presearchFile, timers, autofillRequests,
                 autofillCalls, addCertificateFile,
                 notPage>>

\* click of a button of the list of the modal
ClickCandidate ==
  /\ recipientsModal.shown
  /\ \E k \in 1..Len(recipientsModal.list) :
       selectMatchedRecipient(UserOf(recipientsModal.list[k].user), recipientsModal.extracted[1])
  /\ recipientsModal' = [recipientsModal EXCEPT !.shown = FALSE]
  /\ UNCHANGED <<presearchProcessing, presearchDisabled, pipelines, autofillRequests,
                 autofillCalls, addCertificateFile,
                 notPage>>

\* the timeout of selectMatchedRecipient
StatusResetTimer ==
  /\ timers > 0
  /\ timers' = timers - 1
  /\ presearchStatus' = DefaultStatus
  /\ Release
  /\ UNCHANGED <<selectedVars, addForm, autofillStatus, presearchFile, recipientsModal, pipelines,
                 autofillRequests, autofillCalls, addCertificateFile,
                 notPage>>

\* change of addCertificateFileInput: handleAutofillFromFile up to its await
ChooseAddFile ==
  /\ PageFree
  /\ autofillCalls < MaxAutofills
  /\ \E file \in PageFiles :
       /\ autofillStatus' = Status("Attempting to read certificate...", "info")
       /\ autofillRequests' = Append(autofillRequests, file)
       /\ addCertificateFile' = file
  /\ autofillCalls' = autofillCalls + 1
  /\ UNCHANGED <<selectedVars, addForm, presearchStatus, presearchProcessing, presearchDisabled,
                 presearchFile, recipientsModal, pipelines, timers, notPage>>

\* a failure that empties the form
AfterAutofill_FailureClears(answer) ==
  IF answer.success
    THEN Commit(applyAutofillResult(answer.extracted[1], addForm, Trim(selectedUserName),
                                    selectedUserDetails, FALSE, canCreateTrainingClass))
    ELSE autofillStatus' = Status(answer.error, "danger") /\ addForm' = EmptyForm

\* handleAutofillFromFile after its await, for an answer of the server; the
\* context is a copy of addAutofillContext
AfterAutofill(answer) ==
  IF answer.success
    THEN Commit(applyAutofillResult(answer.extracted[1], addForm, Trim(selectedUserName),
                                    selectedUserDetails, FALSE, canCreateTrainingClass))
    ELSE autofillStatus' = Status(answer.error, "danger") /\ UNCHANGED addForm

\* the requests of a list but the k-th
Without(requests, k) == SubSeq(requests, 1, k - 1) \o SubSeq(requests, k + 1, Len(requests))

AutofillAnswered ==
  /\ \E k \in 1..Len(autofillRequests) :
       /\ AfterAutofill(AnswerOf(autofillRequests[k]))
       /\ autofillRequests' = Without(autofillRequests, k)
  /\ UNCHANGED <<selectedVars, presearchStatus, presearchProcessing, presearchDisabled,
                 presearchFile, recipientsModal, pipelines, timers, autofillCalls, addCertificateFile,
                 notPage>>

\* click of a result of the user search
SelectSearchResult ==
  /\ PageFree
  /\ \E k \in directory : setSelectedUser(AllUsers[k], <<>>)
  /\ UNCHANGED <<presearchStatus, presearchProcessing, presearchDisabled, presearchFile,
                 recipientsModal, pipelines, timers, autofillRequests, autofillCalls, addCertificateFile,
                 notPage>>

\* change of addCertificateFileInput to no file
ClearAddFile ==
  /\ PageFree
  /\ addCertificateFile' = Null
  /\ addForm' = clearClassSuggestion(addForm)
  /\ autofillStatus' = DefaultStatus
  /\ UNCHANGED <<selectedVars, presearchStatus, presearchProcessing, presearchDisabled,
                 presearchFile, recipientsModal, pipelines, timers, autofillRequests,
                 autofillCalls, notPage>>

\* the presearch of the page: upload, lookups, modal and timer
NextPresearch ==
  \/ ChoosePresearchFile \/ ClickUpload \/ ExtractAnswered \/ FindAnswered
  \/ PossibleAnswered \/ ClickCandidate \/ StatusResetTimer

SpecPresearch == InitPage /\ [][NextPresearch]_vars

\* the add form of the page: the user search and the auto-fill from a file
NextAutofill == SelectSearchResult \/ ChooseAddFile \/ ClearAddFile \/ AutofillAnswered

SpecAutofill == InitPage /\ [][NextAutofill]_vars

(***************************************************************************)
(* Claims about the add form's auto-fill (SpecAutofill).                   *)
(***************************************************************************)
\* the status holds the part among its messages
InMessage(part, status) == \E k \in 1..Len(status.message) : status.message[k] = part

\* the step is the answer to the k-th auto-fill request
Answers(k) == autofillRequests' = Without(autofillRequests, k)

\* the extracted object of the answer to the k-th request
ExtractedOf(k) == AnswerOf(autofillRequests[k]).extracted[1]

\* the name is on the certificate, and its normalized form is neither the
\* normalized name of the selected user nor one of the user's variants
Mismatch(recipientName) ==
  /\ ~Falsy(recipientName)
  /\ normalizeForMatch(recipientName, FALSE) # normalizeForMatch(Trim(selectedUserName), FALSE)
  /\ normalizeForMatch(recipientName, FALSE) \notin getUserNameVariantSet(selectedUserDetails)

\* the status after the step reports the mismatch as a warning
MismatchWarned(recipientName) ==
  /\ InMessage(MismatchMessage(recipientName), autofillStatus')
  /\ autofillStatus'.level = "warning"

\* C9 as stated: an answer with a recipient name that is not empty and does
\* not match the selected user makes applyAutofillResult report the mismatch
\* with level warning, and no applyAutofillResult changes the selected user
C9_AnyMismatchWarns ==
  [][\A k \in 1..Len(autofillRequests) :
       (Answers(k) /\ AnswerOf(autofillRequests[k]).success) =>
         /\ UNCHANGED selectedVars
         /\ Mismatch(ExtractedOf(k).recipientName) => MismatchWarned(ExtractedOf(k).recipientName)]_vars

\* a mismatch was reported for a selected user, in an answer whose class
\* was found in the catalog
C9_Witness ==
  /\ selectedUserId = "u08"
  /\ InMessage(MismatchMessage("John Smith"), autofillStatus)
  /\ addForm.trainingClass = "c1"
  /\ autofillStatus.level = "warning"

\* C9: an answer with a recipient name whose normalized form is not empty
\* and does not match the selected user makes applyAutofillResult report the
\* mismatch with level warning, and no applyAutofillResult changes the
\* selected user
C9_NormalizedMismatchWarns ==
  [][\A k \in 1..Len(autofillRequests) :
       (Answers(k) /\ AnswerOf(autofillRequests[k]).success) =>
         /\ UNCHANGED selectedVars
         /\ (Mismatch(ExtractedOf(k).recipientName)
               /\ normalizeForMatch(ExtractedOf(k).recipientName, FALSE) # "")
              => MismatchWarned(ExtractedOf(k).recipientName)]_vars

(***************************************************************************)
(* Claims about the presearch (SpecPresearch).                             *)
(***************************************************************************)
\* the step is the handler of the i-th upload going on after
\* findPossibleUsersByName
AfterPossibleStep(i) == pipelines[i].pc = "possible" /\ pipelines'[i].pc = "done"

\* C8: the list of the modal is shown only when findUserByName returned no
\* user and findPossibleUsersByName returned candidates; while it is shown the
\* selected user changes only by a click on a candidate of the list; and when
\* both lookups return nothing the selected user stays and the status says
\* that no matching user was found
C8_AmbiguousNeverAutoResolved ==
  [][/\ (~recipientsModal.shown /\ recipientsModal'.shown) =>
          \E i \in 1..Len(pipelines) : AfterPossibleStep(i) /\ recipientsModal'.list # <<>>
     /\ (recipientsModal.shown /\ selectedUserId' # selectedUserId) =>
          /\ ~recipientsModal'.shown
          /\ \E k \in 1..Len(recipientsModal.list) : selectedUserId' = recipientsModal.list[k].user
     /\ \A i \in 1..Len(pipelines) :
          (AfterPossibleStep(i) /\ recipientsModal' = recipientsModal) =>
            /\ UNCHANGED selectedVars
            /\ presearchStatus' = Status("No matching user found for \""
                                         \o pipelines[i].extracted[1].recipientName \o "\".",
                                         "danger")]_vars

\* the files whose extraction fails, with the errors of the endpoint
FailingFiles ==
  {<<"smith.txt", InvalidTypeError>>, <<"blank.png", UnreadableError>>,
   <<"annlee.pdf", LowConfidenceError>>}

FormFields(form) ==
  <<form.trainingClass, form.startDate, form.endDate, form.hours, form.courseNumber>>

Actor(name, roles, isAdmin) == [name |-> name, roles |-> roles, isAdmin |-> isAdmin]

Actors ==
  {Actor("student", {"Student"}, FALSE), Actor("officer", {"Training Officer"}, FALSE),
   Actor("approver", {"Approver"}, FALSE), Actor("admin", {"Student"}, TRUE)}

ActorOf(name) == CHOOSE a \in Actors : a.name = name

certificateManagerRoles == {"Training Officer", "Approver"}

\* hasRole(roles); isApprover is hasRole of the role Approver alone
hasRole(user, roles) == user.isAdmin \/ user.roles \cap roles # {}

\* at most this many submissions are created
MaxSubmissions == 2

\* the hoursLogged of the forms
FormHours == {"-1", "8"}

Submission(status, approvedBy, hours) ==
  [student |-> "student", status |-> status, approvedBy |-> approvedBy, hoursLogged |-> hours,
   comments |-> <<>>]

\* at most this many approve and reject requests are between their findById
\* and their save
MaxValidations == 2

\* the comments of the approve and reject forms
FormComments == {"", "No class roster"}

\* submission.comments.push({ author, text: comment.trim() })
PushComment(comments, author, comment) ==
  Append(comments, [author |-> author, text |-> Trim(comment)])

\* updateUserQualificationsForApprovedSubmission(submission): the class moves
\* from missingClasses to completedClasses if it is missing
updateUserQualificationsForApprovedSubmission(completed, id) ==
  IF completed = <<>> THEN <<id>> ELSE completed

\* recalculateUserQualifications(student): the class is completed by the last
\* approved submission of the student, and missing when there is none
recalculateUserQualifications(all) ==
  LET approved == {i \in 1..Len(all) : all[i].status = "approved"}
  IN  IF approved = {} THEN <<>> ELSE <<CHOOSE i \in approved : \A j \in approved : j <= i>>

InitWorkflow ==
  /\ submissions = <<>>
  /\ completedClass = <<>>
  /\ validations = {}
  /\ IdleButFlow

\* POST /training/submit
SubmitTraining(user) ==
  /\ user.name = "student"
  /\ Len(submissions) < MaxSubmissions
  /\ \E hours \in FormHours :
       submissions' = Append(submissions, Submission("pending", Null, toSafeNumber(hours)))
  /\ UNCHANGED <<completedClass, validations, notFlow>>

\* POST /training/certificates/add
AddCertificate(user) ==
  /\ hasRole(user, certificateManagerRoles)
  /\ Len(submissions) < MaxSubmissions
  /\ \E hours \in FormHours :
       /\ toSafeNumber(hours)[1] >= 0
       /\ submissions' = Append(submissions, Submission("approved", user.name, toSafeNumber(hours)))
  /\ completedClass' =
       updateUserQualificationsForApprovedSubmission(completedClass, Len(submissions) + 1)
  /\ UNCHANGED <<validations, notFlow>>

\* POST /training/submission/:id/update
UpdateSubmission(user, id) ==
  /\ hasRole(user, certificateManagerRoles)
  /\ \E hours \in FormHours :
       /\ toSafeNumber(hours)[1] >= 0
       /\ submissions' = [submissions EXCEPT ![id].status = "approved",
                                              ![id].approvedBy = user.name,
                                              ![id].hoursLogged = toSafeNumber(hours)]
  /\ completedClass' = recalculateUserQualifications(submissions')
  /\ UNCHANGED <<validations, notFlow>>

\* a request that has read the pending submission and is about to save it
Validation(kind, user, id, comment) ==
  [kind |-> kind, user |-> user.name, id |-> id, comment |-> comment]

\* POST /training/submission/:id/approve up to its save: findById and the
\* test of the status
ApproveSubmission(user, id) ==
  /\ hasRole(user, {"Approver"})
  /\ submissions[id].status = "pending"
  /\ Cardinality(validations) < MaxValidations
  /\ \E comment \in FormComments :
       validations' = validations \cup {Validation("approve", user, id, comment)}
  /\ UNCHANGED <<submissions, completedClass, notFlow>>

\* the save of an approve request and the update of the qualifications
SaveApproved(v) ==
  /\ v \in validations /\ v.kind = "approve"
  /\ submissions' =
       [submissions EXCEPT ![v.id].status = "approved", ![v.id].approvedBy = v.user,
                           ![v.id].comments = IF Trim(v.comment) # ""
                                                THEN PushComment(@, v.user, v.comment) ELSE @]
  /\ completedClass' = updateUserQualificationsForApprovedSubmission(completedClass, v.id)
  /\ validations' = validations \ {v}
  /\ UNCHANGED notFlow

\* POST /training/submission/:id/reject up to its save: findById and the
\* tests of the status and of the reason
RejectSubmission(user, id) ==
  /\ hasRole(user, {"Approver"})
  /\ submissions[id].status = "pending"
  /\ Cardinality(validations) < MaxValidations
  /\ \E comment \in FormComments :
       /\ Trim(comment) # ""
       /\ validations' = validations \cup {Validation("reject", user, id, comment)}
  /\ UNCHANGED <<submissions, completedClass, notFlow>>

\* the save of a reject request
SaveRejected(v) ==
  /\ v \in validations /\ v.kind = "reject"
  /\ submissions' =
       [submissions EXCEPT ![v.id].status = "rejected", ![v.id].approvedBy = v.user,
                           ![v.id].comments = PushComment(@, v.user, v.comment)]
  /\ validations' = validations \ {v}
  /\ UNCHANGED <<completedClass, notFlow>>

NextWorkflow ==
  \/ \E user \in Actors :
       \/ SubmitTraining(user)
       \/ AddCertificate(user)
       \/ \E id \in 1..Len(submissions) :
            \/ UpdateSubmission(user, id)
            \/ ApproveSubmission(user, id)
            \/ RejectSubmission(user, id)
  \/ \E v \in validations : SaveApproved(v) \/ SaveRejected(v)

SpecWorkflow == InitWorkflow /\ [][NextWorkflow]_vars

\* the user holds the role Approver or is an admin
IsValidator(name) == name # Null /\ hasRole(ActorOf(name), {"Approver"})

\* C18: a submission is approved, and the qualification credits it, only
\* after a user with the role Approver (or an admin) has validated it; no
\* requests of a user who holds only the role Training Officer end in an
\* approved submission or in qualification credit.
C18_CreditOnlyAfterApproverValidation ==
  /\ \A id \in 1..Len(submissions) :
       submissions[id].status = "approved" => IsValidator(submissions[id].approvedBy)
  /\ completedClass # <<>> =>
       /\ submissions[completedClass[1]].status = "approved"
       /\ IsValidator(submissions[completedClass[1]].approvedBy)


(***************************************************************************)
(* applyAutofillResult on its own (SpecApply): the function is applied to  *)
(* an extracted object built from the values below, for a context whose    *)
(* class select holds "c2" and with the user u05 selected.                  *)
(***************************************************************************)
ApplyClassNames ==
  {Null, "Emergency Vehicle Operations", "emergency  vehicle operations!", "Vehicle Operations",
   "Operations", "Hazardous Operations Course", "Rescue Operations", "Rope Rescue", "!!!",
   "Emergency Vehicle Operations and a great many other words of the course title"}

\* hours in thousandths
ApplyHours == {<<>>, <<0>>, <<8000>>, <<12345>>, <<250>>, <<-5000>>, <<-1250>>}

ApplyDates ==
  {NoDate,
   [courseDate |-> "2024-03-05T00:00:00.000Z", courseDateText |-> "March 5, 2024"],
   [courseDate |-> Null, courseDateText |-> "13/45/2024"]}

ApplyIdentifiers == {Null, "EMS-202-S025-2025"}

ApplyLogNumbers == {Null, "12"}

ApplyRecipients == {Null, "John Smith", "Ann Lee"}

\* the form before the call: a class is selected; the context has a
\* courseNumberInput or has none
ApplyForms == {[EmptyForm EXCEPT !.trainingClass = "c2", !.courseNumber = c] : c \in {"", Null}}

ApplySelected == UserOf("u05")

InitApply ==
  /\ applyResult = <<>>
  /\ \E className \in ApplyClassNames, hours \in ApplyHours, date \in ApplyDates,
        identifier \in ApplyIdentifiers, log \in ApplyLogNumbers, recipient \in ApplyRecipients,
        form \in ApplyForms, canCreate \in BOOLEAN :
        applyInput = [extracted |-> <<[recipientName |-> recipient, trainingClassName |-> className,
                                       hoursLogged |-> hours, courseIdentifier |-> identifier,
                                       logNumber |-> log, courseDate |-> date.courseDate,
                                       courseDateText |-> date.courseDateText,
                                       isLikelyMfri |-> TRUE]>>,
                      form |-> form, canCreate |-> canCreate]
  /\ IdleButApply

\* what a call leaves: the form and the status set
Applied(acc) == [form |-> acc.form, status |-> StatusOf(acc)]

\* a call applyAutofillResult(extracted, context); the context is
\* addAutofillContext itself or a copy of it
ApplyAutofill ==
  /\ applyResult = <<>>
  /\ \E shared \in BOOLEAN :
       applyResult' = <<Applied(applyAutofillResult(applyInput.extracted[1], applyInput.form,
                                                    Trim(ApplySelected.displayName),
                                                    DetailsOf(ApplySelected), shared,
                                                    applyInput.canCreate))>>
  /\ UNCHANGED <<applyInput, notApply>>

NextApply == ApplyAutofill

SpecApply == InitApply /\ [][NextApply]_vars

(***************************************************************************)
(* Claims about applyAutofillResult (SpecApply).                           *)
(***************************************************************************)
WasApplied == applyResult # <<>>

AppliedTo == applyInput.extracted[1]


\* the options of the catalog that are candidates: those with a value and a
\* normalized text
ClassCandidates ==
  {k \in 1..Len(Catalog) : Catalog[k].value # "" /\ normalizeForMatch(Catalog[k].text, TRUE) # ""}

\* the match score of an option text for a target of n words, times n: 100
\* for equal names, 85 minus the difference of the lengths when one name
\* holds the other, 70 times the share of the target's words the option has
\* otherwise
ClassPoints(option, target, n) ==
  IF option = target THEN 100 * n
  ELSE IF Includes(option, target) \/ Includes(target, option)
    THEN (85 - Abs(Len(option) - Len(target))) * n
  ELSE 70 * Cardinality({k \in 1..n :
                           \E j \in 1..Len(Words(option)) : Words(option)[j] = Words(target)[k]})

PointsOf(k, target) ==
  ClassPoints(normalizeForMatch(Catalog[k].text, TRUE), target, Len(Words(target)))

\* the candidates with the best score, when that score is at least 45
ClassHits(target) ==
  {k \in ClassCandidates :
     /\ target # ""
     /\ PointsOf(k, target) >= MinClassScore * Len(Words(target))
     /\ \A j \in ClassCandidates : PointsOf(j, target) <= PointsOf(k, target)}

ExactOptions(target) ==
  {k \in ClassCandidates : normalizeForMatch(Catalog[k].text, TRUE) = target}

\* the outcome of the class step for a class name, before and after
ClassOutcome(name, target, before, after, canCreate) ==
  IF ClassHits(target) # {}
    THEN /\ \E k \in ClassHits(target) : after.form.trainingClass = Catalog[k].value
         /\ ExactOptions(target) # {} =>
               \E k \in ExactOptions(target) : after.form.trainingClass = Catalog[k].value
         /\ after.form.suggestion = ""
    ELSE /\ after.form.trainingClass = before.trainingClass
         /\ after.form.suggestion = "Class not found: " \o name \o "."
         /\ \E m \in 1..Len(after.status.message) :
               after.status.message[m] = "Suggested class: " \o name
         /\ after.status.level = "warning"
         /\ after.form.createButton = canCreate

\* C25: with an extracted class name applyAutofillResult selects a catalog
\* option if and only if the best option's score (100 for equal normalized
\* names, 85 minus the length difference for containment, otherwise the
\* overlap ratio times 70) is at least 45; on a hit the select holds that
\* option's value, an exact match when there is one; on a miss the select is
\* unchanged, the raw name is suggested, the severity is warning and the
\* create-class button is shown only when the operator may create classes.
C25_ClassSelectedFromScore ==
  (WasApplied /\ ~Falsy(AppliedTo.trainingClassName)) =>
    ClassOutcome(AppliedTo.trainingClassName, normalizeForMatch(AppliedTo.trainingClassName, TRUE),
                 applyInput.form, applyResult[1], applyInput.canCreate)

\* two of the three words of the name are words of an option: 46.67 points
C25_Witness ==
  /\ WasApplied /\ AppliedTo.trainingClassName = "Hazardous Operations Course"
  /\ applyResult[1].form.trainingClass = "c2"
  /\ applyResult[1].form.suggestion = ""


\* a number of thousandths with at most one decimal place
OneDecimal(n) == n % 100 = 0

Severity == <<"success", "info", "warning">>

Rank(level) == CHOOSE r \in 1..Len(Severity) : Severity[r] = level

\* the outcomes of the fields of an extracted object x for a form: the
\* level each field that was handled asks for
FieldOutcomes(x, form, names) ==
  (IF Falsy(x.trainingClassName) THEN {}
   ELSE IF ClassHits(normalizeForMatch(x.trainingClassName, TRUE)) # {} THEN {"success"}
   ELSE {"warning"})
  \cup (IF ~Falsy(x.courseDate) THEN {"success"}
        ELSE IF ~Falsy(x.courseDateText) THEN {"warning"} ELSE {})
  \cup (IF x.hoursLogged # <<>> THEN {"success"} ELSE {})
  \cup (IF Falsy(x.courseIdentifier) THEN {}
        ELSE IF form.courseNumber # Null THEN {"success"} ELSE {"info"})
  \cup (IF Falsy(x.recipientName) \/ normalizeForMatch(x.recipientName, FALSE) = "" THEN {}
        ELSE IF normalizeForMatch(x.recipientName, FALSE) \in names THEN {"success"}
        ELSE {"warning"})
  \cup (IF Falsy(x.courseIdentifier) /\ ~Falsy(x.logNumber) THEN {"success"} ELSE {})

\* the most severe of the outcomes; warning when there is none
MostSevere(outcomes) ==
  IF outcomes = {} THEN "warning"
  ELSE CHOOSE level \in outcomes : \A other \in outcomes : Rank(other) <= Rank(level)

SeverityOf(outcomes, status) ==
  /\ status.level = MostSevere(outcomes)
  /\ outcomes = {} <=> status.message = <<NoFieldsMessage>>

\* C27: the severity applyAutofillResult sets is the most severe of the
\* outcomes of the fields under warning > info > success, so that a warning
\* is never lowered by a later field; when no field gave a message the
\* severity is warning and the message is "No recognizable fields were
\* found."; the severity is never danger.
C27_SeverityIsMostSevere ==
  WasApplied =>
    /\ SeverityOf(FieldOutcomes(AppliedTo, applyInput.form,
                                candidateNames(Trim(ApplySelected.displayName),
                                               DetailsOf(ApplySelected))),
                  applyResult[1].status)
    /\ applyResult[1].status.level # "danger"

\* a class that was not found, then a course number that is only suggested
C27_Witness ==
  /\ WasApplied
  /\ AppliedTo.trainingClassName = "Rope Rescue"
  /\ AppliedTo.courseIdentifier = "EMS-202-S025-2025" /\ applyInput.form.courseNumber = Null
  /\ AppliedTo.recipientName = "John Smith"
  /\ applyResult[1].status.level = "warning"


(***************************************************************************)
(* Claims about the presearch pipelines (SpecPresearch).                   *)
(***************************************************************************)
\* the click handlers that stand at an await
PipelinesInFlight == {i \in 1..Len(pipelines) : pipelines[i].pc # "done"}

\* C28: at most one presearch pipeline is in flight at any time; from the
\* click that starts it until it finishes presearchProcessing stays true and
\* the upload button stays disabled, for every interleaving of upload
\* clicks, candidate clicks, server responses and status-reset timers.
C28_OnePipelineInFlight ==
  /\ Cardinality(PipelinesInFlight) <= 1
  /\ PipelinesInFlight # {} => (presearchProcessing /\ presearchDisabled)


(***************************************************************************)
(* Claims about overlapping auto-fill requests (SpecAutofill).             *)
(***************************************************************************)
\* the status handleAutofillFromFile sets for an answer of the server
StatusFor(answer) ==
  IF answer.success
    THEN StatusOf(applyAutofillResult(answer.extracted[1], addForm, Trim(selectedUserName),
                                      selectedUserDetails, FALSE, canCreateTrainingClass))
    ELSE Status(answer.error, "danger")

\* C29: when file A and then file B are chosen in the certificate input
\* before A's answer has arrived, the form and the auto-fill status end up
\* reflecting B's extraction, in whichever order the answers arrive: an
\* answer for a file that is no longer the chosen one never overwrites the
\* form or the status, and once no request is pending the status is that of
\* the chosen file's answer.
C29_ChosenFileWins ==
  [][\A k \in 1..Len(autofillRequests) :
       Answers(k) =>
         /\ autofillRequests[k] # addCertificateFile =>
               (addForm' = addForm /\ autofillStatus' = autofillStatus)
         /\ (autofillRequests' = <<>> /\ addCertificateFile # Null) =>
               autofillStatus' = StatusFor(AnswerOf(addCertificateFile))]_vars


\* C30: approve and reject act only on a pending submission: once the status
\* of a submission is approved or rejected, no approve or reject request
\* changes its status, approver or comments, also when an approve and a
\* reject request for the same pending submission are processed
\* concurrently.
C30_ValidatedOnlyWhilePending ==
  [][\A id \in 1..Len(submissions) :
       (validations' # validations /\ submissions[id].status # "pending") =>
         submissions'[id] = submissions[id]]_vars

=============================================================================
